---- MODULE Spec2Model ----
(***************************************************************************)
(* State-machine model of the CamBridge camera HALs.                       *)
(*                                                                         *)
(*  hal = "aidl" : app/src/main/cpp  (HalCameraSession owned by a          *)
(*                 HalCameraDevice), one caller thread, one frame-push     *)
(*                 thread and the session's frame processing thread.       *)
(*  hal = "hal3" : uvc-camera-hal (UvcCamera3Device and its RequestThread).*)
(*  hal = "prov" : app/src/main/cpp  (HalCameraProvider, its cached        *)
(*                 HalCameraDevice and the sessions open() creates on it,  *)
(*                 followed from open to close).                           *)
(*                                                                         *)
(* The two HAL generations are separate libraries; a behaviour runs one of *)
(* them, and follows either one session or the provider.  Variables of the *)
(* parts a behaviour does not run keep their initial values.               *)
(***************************************************************************)
EXTENDS Integers, Sequences, FiniteSets, Bags, TLC

\* ------------------------------------------------------------------ bounds
MaxFrameNumber == 1   \* frame numbers submitted by the framework: 0..MaxFrameNumber
MaxPush == 2          \* frames pushed by the JNI frame source
MaxConfigure == 2     \* configureStreams calls
MaxClose == 2         \* close / closeDevice calls
MaxSignal == 3        \* signalDeviceAvailable calls
MaxGetDevice == 2     \* getCameraDeviceInterface calls
MaxOpen == 3          \* HalCameraDevice::open calls
MaxInitialize == 2    \* UvcCamera3Device::initialize calls
MaxRingPush == 9      \* frames pushed in the behaviours that fill the queue and the ring

\* ------------------------------------------------------- program constants
kNumStreamBuffers == 4
UVC_FORMAT_MJPEG == 0
UVC_FORMAT_YUYV == 1
UVC_FORMAT_OTHER == UVC_FORMAT_YUYV + 1   \* a value that is neither MJPEG nor YUYV

VARIABLES
    hal,                    \* which HAL library this behaviour runs
    \* ---- HalCameraSession fields
    mIsClosing,
    mStreamsConfigured,
    mConfiguredHalStreams,  \* std::vector<HalStream>
    mActiveStreamInfo,      \* Stream
    mHardwareBuffers,       \* std::vector<AHardwareBuffer*>
    mNextAvailableBufferIdx,\* 0-based, as in the code
    mFrameQueue,            \* std::queue<RawFrameData>
    mFrameNumber,           \* uint32_t result counter
    mFrameworkCallback,     \* TRUE while the shared_ptr is non-null
    mParentDevice,          \* TRUE while the raw pointer is non-null
    \* ---- HalCameraDevice
    mCurrentSession,        \* TRUE while the device holds its session
    \* ---- threads of the session
    pcWorker,               \* "wait" | "process" | "done" | "selfjoin"
    rawFrame, outputHwBuffer, currentBufferIdx,   \* locals of the loop
    pcClose,                \* position of the caller inside close()
    \* ---- environment and observation
    clock,                  \* next reading of system_clock (every reading is later)
    nextFn,                 \* least frame number the framework may still use
    nPush, nConfigure,      \* calls made so far
    released,               \* generations of ring buffers released so far
    delivered,              \* calls made on the framework callback, in order
    submitted,              \* frame numbers given to processCaptureRequest
    flushMark,              \* pushes, callback calls and configures made when flush last returned
    closeStatus,            \* what the last close() returned, "NONE" before
    nClose,                 \* close / closeDevice calls that returned
    nCloseSession,          \* calls of HalCameraDevice::closeSession by the session
    \* ---- UvcCamera3Device and its RequestThread
    mState,                 \* UvcCamera3Device::State
    mCallbackOps,           \* TRUE while the pointer is non-null
    mRequestThread,         \* TRUE while the sp<RequestThread> is non-null
    mExitRequested,
    mRequestQueue,          \* std::queue<camera3_capture_request_t*>, as frame numbers
    pcThread,               \* "none" | "wait" | "process" | "exited"
    request,                \* local of threadLoop, -1 for nullptr
    pcCloseDevice,          \* position of the caller inside closeDevice()
    handed,                 \* frame numbers passed to processOneCaptureRequest
    initLog,                \* the initialize calls made, as their caller saw them
    \* ---- HalCameraProvider
    mIsDeviceAvailable,
    mProviderCallback,      \* HalCameraProvider::mFrameworkCallback, TRUE while non-null
    mCameraDeviceInstance,  \* 0 for nullptr, else the number of the HalCameraDevice made
    statusLog,              \* cameraDeviceStatusChange calls made on the provider callback
    lastSignal,             \* "none", or the value of the last signal for the virtual camera
    nSignal,                \* signalDeviceAvailable calls made so far
    getLog,                 \* what the getCameraDeviceInterface calls returned, in order
    openLog,                \* what the HalCameraDevice::open calls returned, in order
    pcSignal,               \* position of the JNI thread inside signalDeviceAvailable:
                            \* "none" | "selflock"
    pcCleanup,              \* position of the thread that runs HalCameraProvider::cleanup:
                            \* "none" | "selflock" | "returned"
    \* ---- static characteristics
    mStaticCharacteristics, \* HalCameraDevice: the metadata entries, tag |-> data
    supportedLog,           \* the last isStreamCombinationSupported call: its in_config
                            \* and what it wrote to *_aidl_return; <<>> before any call
    mSupportedV4L2Formats,  \* UvcCamera3Device: what enumFormats() returned
    mStaticInfo,            \* UvcCamera3Device: the metadata entries, "NONE" for nullptr
    \* ---- the AHardwareBuffers of a session
    allocated,              \* buffers AHardwareBuffer_allocate returned, as <<generation, slot>>
    releaseCalls,           \* bag of the buffers given to AHardwareBuffer_release
    destroyed,              \* TRUE once ~HalCameraSession has run
    \* ---- VirtualCameraHAL
    mInitialized,
    mPreviewEnabled,
    mFrameBuffers,          \* std::vector<FrameBuffer>, as [size, inUse] records
    pcAllocate,             \* position of the thread inside allocateFrameBuffers:
                            \* "none" | "selflock"
    pushLog                 \* what the pushVideoFrame calls returned, in order

sessVars == <<mIsClosing, mStreamsConfigured, mConfiguredHalStreams, mActiveStreamInfo,
              mHardwareBuffers, mNextAvailableBufferIdx, mFrameQueue, mFrameNumber,
              mFrameworkCallback, mParentDevice>>
workerVars == <<pcWorker, rawFrame, outputHwBuffer, currentBufferIdx>>
envVars == <<clock, nextFn, nPush, nConfigure, released, delivered, submitted,
             flushMark, closeStatus, nClose, nCloseSession>>
aidlVars == <<sessVars, mCurrentSession, workerVars, pcClose, envVars>>
hal3Vars == <<mState, mCallbackOps, mRequestThread, mExitRequested, mRequestQueue,
              pcThread, request, pcCloseDevice, handed, initLog>>

staticVars == <<mStaticCharacteristics, supportedLog, mSupportedV4L2Formats,
                mStaticInfo>>

ledgerVars == <<allocated, releaseCalls, destroyed>>

vhalVars == <<mInitialized, mPreviewEnabled, mFrameBuffers, pcAllocate, pushLog>>

provVars == <<mIsDeviceAvailable, mProviderCallback, mCameraDeviceInstance, statusLog,
              lastSignal, nSignal, getLog, openLog, pcSignal, pcCleanup>>

\* ------------------------------------------------------------ data shapes
Stream(id, type, fmt, w, h) ==
    [id |-> id, streamType |-> type, format |-> fmt, width |-> w, height |-> h,
     dataSpace |-> 0]

DefaultStream == Stream(0, "OUTPUT", "UNSET", 0, 0)

S640 == Stream(1, "OUTPUT", "YCBCR_420_888", 640, 480)
S720 == Stream(2, "OUTPUT", "YCBCR_420_888", 1280, 720)

\* StreamConfiguration values the framework passes to configureStreams
Configs ==
    { <<>>, <<S640>>,
      <<Stream(1, "INPUT", "YCBCR_420_888", 640, 480)>>,
      <<Stream(1, "OUTPUT", "BLOB", 640, 480)>>,
      <<S640, S720>> }

\* frames the JNI source pushes: (width, height, uvcFormat)
FrameInputs ==
    { [width |-> 640, height |-> 480, uvcFormat |-> UVC_FORMAT_YUYV],
      [width |-> 640, height |-> 480, uvcFormat |-> UVC_FORMAT_MJPEG],
      [width |-> 1280, height |-> 720, uvcFormat |-> UVC_FORMAT_YUYV] }

NoFrame == [width |-> 0, height |-> 0, uvcFormat |-> UVC_FORMAT_OTHER,
            timestamp |-> 0, seq |-> 0]
NoBuffer == [gen |-> 0, width |-> 0, height |-> 0]      \* nullptr

\* one call on ICameraDeviceCallback: notify(SHUTTER | ERROR) or
\* processCaptureResult; seq is the pushed frame a result was made from
Msg(type, fn, ts, code, stream, buf, seq) ==
    [type |-> type, frameNumber |-> fn, timestamp |-> ts, errorCode |-> code,
     streamId |-> stream, bufferId |-> buf, seq |-> seq]
ShutterMsg(fn, ts) == Msg("SHUTTER", fn, ts, "NONE", -1, -1, 0)
ErrorMsg(fn, stream, code) == Msg("ERROR", fn, -1, code, stream, -1, 0)
ResultMsg(fn, ts, stream, buf, seq) == Msg("RESULT", fn, ts, "NONE", stream, buf, seq)

HalStream(s) == [id |-> s.id, overridePixelFormat |-> s.format,
                 maxBuffers |-> kNumStreamBuffers, dataSpace |-> s.dataSpace]

\* mFrameworkCallback->notify / ->processCaptureResult behind its null check
Deliver(cb, log, msg) == IF cb THEN Append(log, msg) ELSE log

\* a HalCameraSession was constructed: the one a session behaviour starts
\* with, or one a successful open made
SessionExists ==
    \/ hal = "aidl"
    \/ hal = "prov" /\ \E i \in DOMAIN openLog : openLog[i] = "OK"

\* the worker's hold on mFrameMutex had its unique_lock lived to the end of
\* the loop body
WorkerHoldsFrameMutex_whileProcessing == pcWorker = "process"

\* the worker holds mFrameMutex between two steps: never, its unique_lock is
\* scoped to the block that takes the frame, and mFrameCv.wait releases it
WorkerHoldsFrameMutex == FALSE

\* the single caller thread is not inside close()
CallerIdle == pcClose \in {"none", "returned"}

\* ================================================= HalCameraSession (aidl)

\* what would count as released had the clearing loop dropped the pointers
\* without AHardwareBuffer_release
ReleaseRing_leaked == released

\* the ring released by a clearing loop, added to what was released before
ReleaseRing ==
    IF mHardwareBuffers = <<>> THEN released
    ELSE released \cup {mHardwareBuffers[1].gen}

\* the buffers a clearing loop would hand to AHardwareBuffer_release if it
\* skipped the first slot
HeldBuffers_skipFirst(buffers) ==
    { <<buffers[i].gen, i>> : i \in { n \in 2..Len(buffers) : buffers[n] # NoBuffer } }

\* the non-null buffers of the vector, which "for (buffer : mHardwareBuffers)
\* if (buffer) AHardwareBuffer_release(buffer)" releases
HeldBuffers(buffers) ==
    { <<buffers[i].gen, i>> : i \in { n \in 1..Len(buffers) : buffers[n] # NoBuffer } }

\* the buffers generation gen got before the allocation of index failAt failed
AllocatedBefore(gen, failAt) == { <<gen, j + 1>> : j \in 0..(failAt - 1) }

\* the buffers "for (j = 0; j < i; ++j)" releases after that failure
CleanedUp(gen, failAt) == { <<gen, j + 1>> : j \in 0..(failAt - 1) }

\* the vector after a failed allocation had the cleanup kept what was stored
RingAfterFailure_kept(gen, failAt, stream) ==
    [i \in 1..kNumStreamBuffers |->
        IF i <= failAt THEN [gen |-> gen, width |-> stream.width, height |-> stream.height]
        ELSE NoBuffer]

\* the vector after a failed allocation: mHardwareBuffers.clear()
RingAfterFailure(gen, failAt, stream) == <<>>

\* configureStreams; failAt is the index at which AHardwareBuffer_allocate
\* fails (kNumStreamBuffers: every allocation succeeds)
configureStreams(cfg, failAt) ==
    /\ hal = "aidl" /\ CallerIdle
    /\ ~WorkerHoldsFrameMutex
    /\ nConfigure < MaxConfigure
    /\ nConfigure' = nConfigure + 1
    /\ LET gen == nConfigure + 1
           reject ==
               /\ mStreamsConfigured' = FALSE
               /\ mConfiguredHalStreams' = <<>>
               /\ mHardwareBuffers' = <<>>
               /\ released' = ReleaseRing
               /\ releaseCalls' = releaseCalls (+) SetToBag(HeldBuffers(mHardwareBuffers))
               /\ UNCHANGED <<mActiveStreamInfo, mNextAvailableBufferIdx, allocated>>
       IN  IF Len(cfg) = 0 THEN reject
           ELSE IF Len(cfg) > 1 THEN reject
           ELSE IF cfg[1].streamType # "OUTPUT" THEN reject
           ELSE IF cfg[1].format # "YCBCR_420_888" THEN reject
           ELSE IF failAt < kNumStreamBuffers
           THEN /\ mActiveStreamInfo' = cfg[1]
                /\ mStreamsConfigured' = FALSE
                /\ mConfiguredHalStreams' = <<>>
                /\ mHardwareBuffers' = RingAfterFailure(gen, failAt, cfg[1])
                /\ released' = IF failAt > 0 THEN ReleaseRing \cup {gen} ELSE ReleaseRing
                /\ allocated' = allocated \cup AllocatedBefore(gen, failAt)
                /\ releaseCalls' = releaseCalls (+) SetToBag(HeldBuffers(mHardwareBuffers))
                                      (+) SetToBag(CleanedUp(gen, failAt))
                /\ UNCHANGED mNextAvailableBufferIdx
           ELSE /\ mActiveStreamInfo' = cfg[1]
                /\ mHardwareBuffers' =
                       [i \in 1..kNumStreamBuffers |->
                           [gen |-> gen, width |-> cfg[1].width, height |-> cfg[1].height]]
                /\ mConfiguredHalStreams' = <<HalStream(cfg[1])>>
                /\ mNextAvailableBufferIdx' = 0
                /\ mStreamsConfigured' = TRUE
                /\ released' = ReleaseRing
                /\ allocated' = allocated \cup AllocatedBefore(gen, kNumStreamBuffers)
                /\ releaseCalls' = releaseCalls (+) SetToBag(HeldBuffers(mHardwareBuffers))
    /\ UNCHANGED <<hal, vhalVars, staticVars, destroyed, provVars, hal3Vars, mIsClosing, mFrameQueue, mFrameNumber, mFrameworkCallback,
                   mParentDevice, mCurrentSession, workerVars, pcClose, clock, nextFn,
                   nPush, delivered, submitted, flushMark, closeStatus, nClose, nCloseSession>>

\* what the callback would have seen had a rejected request been dropped
RejectNotify_silent(log, msg) == log

\* the ERROR notify of a rejected request
RejectNotify(log, msg) == Deliver(mFrameworkCallback, log, msg)

\* the count processCaptureRequest writes to *_aidl_return_submittedRequests
submittedRequests(hasOutputs) ==
    IF mIsClosing THEN 0
    ELSE IF ~mStreamsConfigured \/ mConfiguredHalStreams = <<>> \/ mHardwareBuffers = <<>>
    THEN 0
    ELSE IF ~hasOutputs THEN 0
    ELSE 1

\* processCaptureRequest for one CaptureRequest with frame number fn
processCaptureRequest(fn, hasOutputs) ==
    /\ hal = "aidl" /\ CallerIdle
    /\ fn \in nextFn..MaxFrameNumber
    /\ nextFn' = fn + 1
    /\ submitted' = Append(submitted, fn)
    /\ IF mIsClosing
       THEN /\ delivered' = RejectNotify(delivered,
                    ErrorMsg(fn, IF mStreamsConfigured /\ mConfiguredHalStreams # <<>>
                                 THEN mConfiguredHalStreams[1].id ELSE -1,
                             "ERROR_REQUEST"))
            /\ UNCHANGED clock
       ELSE IF ~mStreamsConfigured \/ mConfiguredHalStreams = <<>> \/ mHardwareBuffers = <<>>
       THEN /\ delivered' = RejectNotify(delivered,
                    ErrorMsg(fn, IF mActiveStreamInfo.id # 0 THEN mActiveStreamInfo.id
                                 ELSE IF mConfiguredHalStreams = <<>> THEN -1
                                 ELSE mConfiguredHalStreams[1].id,
                             "ERROR_REQUEST"))
            /\ UNCHANGED clock
       ELSE IF ~hasOutputs
       THEN /\ delivered' = RejectNotify(delivered,
                    ErrorMsg(fn, mConfiguredHalStreams[1].id, "ERROR_REQUEST"))
            /\ UNCHANGED clock
       ELSE /\ delivered' = Deliver(mFrameworkCallback, delivered, ShutterMsg(fn, clock))
            /\ clock' = clock + 1
    /\ UNCHANGED <<hal, vhalVars, staticVars, ledgerVars, provVars, hal3Vars, sessVars, mCurrentSession, workerVars, pcClose, nPush,
                   nConfigure, released, flushMark, closeStatus, nClose,
                   nCloseSession>>

\* the queue test of pushNewFrame if it took every frame
QueueHasRoom_always(q) == TRUE

\* pushNewFrame: mFrameQueue.size() < kNumStreamBuffers * 2
QueueHasRoom(q) == Len(q) < kNumStreamBuffers * 2

\* pushNewFrame, called by the JNI frame source
pushNewFrame(f) ==
    /\ hal = "aidl"
    /\ mIsClosing \/ ~WorkerHoldsFrameMutex
    /\ nPush' = nPush + 1
    /\ IF mIsClosing THEN UNCHANGED <<mFrameQueue, clock>>
       ELSE /\ clock' = clock + 1
            /\ IF ~mStreamsConfigured THEN UNCHANGED mFrameQueue
               ELSE IF QueueHasRoom(mFrameQueue)
               THEN mFrameQueue' = Append(mFrameQueue,
                        [width |-> f.width, height |-> f.height,
                         uvcFormat |-> f.uvcFormat, timestamp |-> clock,
                         seq |-> nPush + 1])
               ELSE UNCHANGED mFrameQueue
    /\ UNCHANGED <<hal, vhalVars, staticVars, ledgerVars, provVars, hal3Vars, mIsClosing, mStreamsConfigured, mConfiguredHalStreams,
                   mActiveStreamInfo, mHardwareBuffers, mNextAvailableBufferIdx,
                   mFrameNumber, mFrameworkCallback, mParentDevice, mCurrentSession,
                   workerVars, pcClose, nextFn, nConfigure, released, delivered,
                   submitted, flushMark, closeStatus, nClose, nCloseSession>>

\* ---- frameProcessingLoop: the session's worker thread

\* back to the top of the loop; the locals are fresh in every iteration
LoopAgain(pc) ==
    /\ pcWorker' = pc
    /\ rawFrame' = NoFrame
    /\ outputHwBuffer' = NoBuffer
    /\ currentBufferIdx' = -1

\* the front of the frame queue, which the worker takes
FrontFrame(q) == Head(q)

\* the ring index if the worker did not advance it
NextSlot_stuck(idx, size) == idx

\* (mNextAvailableBufferIdx + 1) % mHardwareBuffers.size()
NextSlot(idx, size) == (idx + 1) % size

\* the predicate of mFrameCv.wait had it not read mIsClosing
WakeCondition_framesOnly ==
    mFrameQueue # <<>> /\ mStreamsConfigured /\ mHardwareBuffers # <<>>

\* the predicate of mFrameCv.wait
WakeCondition ==
    mIsClosing \/ (mFrameQueue # <<>> /\ mStreamsConfigured /\ mHardwareBuffers # <<>>)

\* the block under mFrameMutex: wait, exit tests, take a frame and a ring slot
frameProcessingLoop_take ==
    /\ SessionExists
    /\ pcWorker = "wait"
    /\ WakeCondition
    /\ IF mIsClosing /\ mFrameQueue = <<>>
       THEN LoopAgain("done") /\ UNCHANGED <<mFrameQueue, mNextAvailableBufferIdx>>
       ELSE IF ~mStreamsConfigured \/ mHardwareBuffers = <<>> \/ mFrameQueue = <<>>
       THEN /\ LoopAgain(IF mIsClosing THEN "done" ELSE "wait")
            /\ UNCHANGED <<mFrameQueue, mNextAvailableBufferIdx>>
       ELSE /\ rawFrame' = FrontFrame(mFrameQueue)
            /\ mFrameQueue' = Tail(mFrameQueue)
            /\ currentBufferIdx' = mNextAvailableBufferIdx
            /\ outputHwBuffer' = mHardwareBuffers[mNextAvailableBufferIdx + 1]
            /\ mNextAvailableBufferIdx' =
                   NextSlot(mNextAvailableBufferIdx, Len(mHardwareBuffers))
            /\ pcWorker' = "process"
    /\ UNCHANGED <<hal, vhalVars, staticVars, ledgerVars, provVars, hal3Vars, mIsClosing, mStreamsConfigured, mConfiguredHalStreams,
                   mActiveStreamInfo, mHardwareBuffers, mFrameNumber, mFrameworkCallback,
                   mParentDevice, mCurrentSession, pcClose, envVars>>

\* sizes callJavaMjpegDecoder may return for a w x h frame
DecodedSizes(w, h) == {0, (w * h * 3) \div 2, ((w * h * 3) \div 2) - 1}

\* conversionOk as the loop computes it; fmt is targetStream.overridePixelFormat,
\* desc the AHardwareBuffer_Desc of the slot, decoded the decoder's output
\* size, yuy2Ok whether libyuv::YUY2ToI420 returned 0
ConversionOk(frame, fmt, desc, decoded, yuy2Ok) ==
    IF frame.uvcFormat = UVC_FORMAT_YUYV /\ fmt = "YCBCR_420_888"
    THEN IF frame.width # desc.width \/ frame.height # desc.height THEN FALSE
         ELSE yuy2Ok
    ELSE IF frame.uvcFormat = UVC_FORMAT_MJPEG /\ fmt = "YCBCR_420_888"
    THEN IF frame.width # desc.width \/ frame.height # desc.height THEN FALSE
         ELSE IF decoded # 0
              THEN decoded = (desc.width * desc.height * 3) \div 2
              ELSE FALSE
    ELSE FALSE

\* what a read through the reference targetStream can yield: the descriptor
\* if there is one, else whatever the cleared vector's storage holds
TargetStreams ==
    IF mConfiguredHalStreams # <<>> THEN {mConfiguredHalStreams[1]}
    ELSE {HalStream(S640), [HalStream(S640) EXCEPT !.overridePixelFormat = "GARBAGE"]}

\* the frame number a CaptureResult carries
ResultFrameNumber == mFrameNumber

\* the sensor timestamp a CaptureResult carries
ResultTimestamp == rawFrame.timestamp

\* outside the mutex: describe and lock the slot, convert, unlock, build the
\* CaptureResult and call processCaptureResult.  A failed lock, unlock or
\* conversion goes back to the top of the loop and tells nobody.
frameProcessingLoop_process(lockOk, unlockOk, decoded, yuy2Ok, handleOk) ==
    /\ hal = "aidl"
    /\ pcWorker = "process"
    /\ decoded \in DecodedSizes(rawFrame.width, rawFrame.height)
    /\ IF outputHwBuffer = NoBuffer
       THEN UNCHANGED <<mFrameNumber, delivered>>
       ELSE \E target \in TargetStreams :
              IF lockOk /\ unlockOk
                 /\ ConversionOk(rawFrame, target.overridePixelFormat, outputHwBuffer,
                                 decoded, yuy2Ok)
              THEN /\ mFrameNumber' = mFrameNumber + 1   \* uint32_t; at most MaxPush here
                   /\ IF handleOk
                      THEN delivered' = Deliver(mFrameworkCallback, delivered,
                               ResultMsg(ResultFrameNumber, ResultTimestamp, target.id,
                                         currentBufferIdx, rawFrame.seq))
                      ELSE UNCHANGED delivered
              ELSE UNCHANGED <<mFrameNumber, delivered>>
    /\ LoopAgain("wait")
    /\ UNCHANGED <<hal, vhalVars, staticVars, ledgerVars, provVars, hal3Vars, mIsClosing, mStreamsConfigured, mConfiguredHalStreams,
                   mActiveStreamInfo, mHardwareBuffers, mNextAvailableBufferIdx,
                   mFrameQueue, mFrameworkCallback, mParentDevice, mCurrentSession,
                   pcClose, clock, nextFn, nPush, nConfigure, released, submitted,
                   flushMark, closeStatus, nClose, nCloseSession>>

\* processCaptureResult whose receiver calls close() before it returns: close
\* runs on the worker thread, sets mIsClosing, finds mProcessingThread
\* joinable and joins it, that is the thread it is running on.  The join
\* never returns to close (std::thread::join on the calling thread fails with
\* resource_deadlock_would_occur or blocks), so nothing after it is executed.
close_in_callback(decoded, yuy2Ok) ==
    /\ hal = "aidl"
    /\ pcWorker = "process"
    /\ CallerIdle
    /\ ~mIsClosing
    /\ mFrameworkCallback
    /\ outputHwBuffer # NoBuffer
    /\ decoded \in DecodedSizes(rawFrame.width, rawFrame.height)
    /\ \E target \in TargetStreams :
          /\ ConversionOk(rawFrame, target.overridePixelFormat, outputHwBuffer,
                          decoded, yuy2Ok)
          /\ delivered' = Deliver(mFrameworkCallback, delivered,
                              ResultMsg(ResultFrameNumber, ResultTimestamp, target.id,
                                        currentBufferIdx, rawFrame.seq))
    /\ mFrameNumber' = mFrameNumber + 1
    /\ mIsClosing' = TRUE
    /\ pcWorker' = "selfjoin"
    /\ UNCHANGED <<hal, vhalVars, staticVars, ledgerVars, provVars, hal3Vars, mStreamsConfigured, mConfiguredHalStreams,
                   mActiveStreamInfo, mHardwareBuffers, mNextAvailableBufferIdx,
                   mFrameQueue, mFrameworkCallback, mParentDevice, mCurrentSession,
                   rawFrame, outputHwBuffer, currentBufferIdx, pcClose, clock, nextFn,
                   nPush, nConfigure, released, submitted, flushMark, closeStatus,
                   nClose, nCloseSession>>

\* the queue flush would leave if it did not swap it with an empty one
FlushedQueue_kept(q) == q

\* mFrameQueue after flush swapped it with an empty queue
FlushedQueue(q) == IF q # <<>> THEN <<>> ELSE q

\* a flush that also dropped the stream configuration
flush_deconfiguring ==
    /\ hal = "aidl" /\ CallerIdle
    /\ mFrameQueue' = FlushedQueue(mFrameQueue)
    /\ mStreamsConfigured' = FALSE
    /\ mConfiguredHalStreams' = <<>>
    /\ flushMark' = [pushed |-> nPush, pos |-> Len(delivered), configured |-> nConfigure,
                    done |-> TRUE]
    /\ UNCHANGED <<hal, vhalVars, staticVars, ledgerVars, provVars, hal3Vars, mIsClosing, mActiveStreamInfo, mHardwareBuffers,
                   mNextAvailableBufferIdx, mFrameNumber, mFrameworkCallback,
                   mParentDevice, mCurrentSession, workerVars, pcClose, clock, nextFn,
                   nPush, nConfigure, released, delivered, submitted, closeStatus,
                   nClose, nCloseSession>>

\* flush
flush ==
    /\ hal = "aidl" /\ CallerIdle
    /\ ~WorkerHoldsFrameMutex
    /\ mFrameQueue' = FlushedQueue(mFrameQueue)
    /\ flushMark' = [pushed |-> nPush, pos |-> Len(delivered), configured |-> nConfigure,
                    done |-> TRUE]
    /\ UNCHANGED <<hal, vhalVars, staticVars, ledgerVars, provVars, hal3Vars, mIsClosing, mStreamsConfigured, mConfiguredHalStreams,
                   mActiveStreamInfo, mHardwareBuffers, mNextAvailableBufferIdx,
                   mFrameNumber, mFrameworkCallback, mParentDevice, mCurrentSession,
                   workerVars, pcClose, clock, nextFn, nPush, nConfigure, released,
                   delivered, submitted, closeStatus, nClose, nCloseSession>>

\* HalCameraDevice::closeSession, called by the session's close
closeSession ==
    /\ mCurrentSession' = FALSE
    /\ nCloseSession' = nCloseSession + 1

\* a close that went through the teardown whatever mIsClosing says
close_begin_unguarded ==
    /\ SessionExists /\ CallerIdle
    /\ nClose < MaxClose
    /\ mIsClosing' = TRUE
    /\ pcClose' = "join"
    /\ UNCHANGED <<hal, vhalVars, staticVars, ledgerVars, provVars, hal3Vars, mStreamsConfigured, mConfiguredHalStreams, mActiveStreamInfo,
                   mHardwareBuffers, mNextAvailableBufferIdx, mFrameQueue, mFrameNumber,
                   mFrameworkCallback, mParentDevice, mCurrentSession, workerVars, clock,
                   nextFn, nPush, nConfigure, released, delivered, submitted, flushMark,
                   closeStatus, nClose, nCloseSession>>

\* close, first block: the mIsClosing test and set under the mutex, notify_all
close_begin ==
    /\ SessionExists /\ CallerIdle
    /\ ~WorkerHoldsFrameMutex
    /\ nClose < MaxClose
    /\ IF mIsClosing
       THEN /\ closeStatus' = "OK"
            /\ nClose' = nClose + 1
            /\ UNCHANGED <<mIsClosing, pcClose>>
       ELSE /\ mIsClosing' = TRUE
            /\ pcClose' = "join"
            /\ UNCHANGED <<closeStatus, nClose>>
    /\ UNCHANGED <<hal, vhalVars, staticVars, ledgerVars, provVars, hal3Vars, mStreamsConfigured, mConfiguredHalStreams, mActiveStreamInfo,
                   mHardwareBuffers, mNextAvailableBufferIdx, mFrameQueue, mFrameNumber,
                   mFrameworkCallback, mParentDevice, mCurrentSession, workerVars, clock,
                   nextFn, nPush, nConfigure, released, delivered, submitted, flushMark,
                   nCloseSession>>

\* the callback pointer if close left it as it is
CallbackAfterClose_kept == mFrameworkCallback

\* mFrameworkCallback after close reset it
CallbackAfterClose == FALSE

\* close, after mProcessingThread.join() returned: tell the parent, drop the
\* callback, clear the queue and the ring under the mutex
close_finish ==
    /\ SessionExists
    /\ pcClose = "join"
    /\ pcWorker = "done"
    /\ IF mParentDevice THEN closeSession ELSE UNCHANGED <<mCurrentSession, nCloseSession>>
    /\ mParentDevice' = FALSE
    /\ mFrameworkCallback' = CallbackAfterClose
    /\ mFrameQueue' = <<>>
    /\ released' = ReleaseRing
    /\ releaseCalls' = releaseCalls (+) SetToBag(HeldBuffers(mHardwareBuffers))
    /\ mHardwareBuffers' = <<>>
    /\ mConfiguredHalStreams' = <<>>
    /\ mStreamsConfigured' = FALSE
    /\ pcClose' = "returned"
    /\ closeStatus' = "OK"
    /\ nClose' = nClose + 1
    /\ UNCHANGED <<hal, vhalVars, staticVars, allocated, destroyed, provVars, hal3Vars, mIsClosing, mActiveStreamInfo, mNextAvailableBufferIdx,
                   mFrameNumber, workerVars, clock, nextFn, nPush, nConfigure, delivered,
                   submitted, flushMark>>

\* ~HalCameraSession.  The HalCameraDevice keeps a reference to the session
\* until close() calls closeSession(), and a caller inside a method holds one,
\* so the destructor runs on a session that close() went through, with no
\* caller inside; its own "if (!mIsClosing) close()" is then skipped and the
\* worker was joined.  It releases what the vector holds and clears it.
destroySession ==
    /\ hal = "aidl" /\ CallerIdle
    /\ ~destroyed
    /\ ~mCurrentSession
    /\ mIsClosing /\ pcWorker = "done"
    /\ destroyed' = TRUE
    /\ released' = ReleaseRing
    /\ releaseCalls' = releaseCalls (+) SetToBag(HeldBuffers(mHardwareBuffers))
    /\ mHardwareBuffers' = <<>>
    /\ UNCHANGED <<hal, vhalVars, staticVars, allocated, provVars, hal3Vars, mIsClosing,
                   mStreamsConfigured, mConfiguredHalStreams, mActiveStreamInfo,
                   mNextAvailableBufferIdx, mFrameQueue, mFrameNumber, mFrameworkCallback,
                   mParentDevice, mCurrentSession, workerVars, pcClose, clock, nextFn,
                   nPush, nConfigure, delivered, submitted, flushMark, closeStatus,
                   nClose, nCloseSession>>

\* ============================================ UvcCamera3Device (hal3)
\* sendErrorNotify and processOneCaptureRequest are declared in
\* UvcCamera3Device.h; the calls RequestThread makes on them are recorded,
\* in `delivered` and in `handed`.

\* mParent->sendErrorNotify(frame_number, CAMERA3_MSG_ERROR_REQUEST)
sendErrorNotify(log, fn) == Append(log, ErrorMsg(fn, -1, "ERROR_REQUEST"))

\* sendErrorNotify for every request of q, front first
RECURSIVE NotifyAll(_, _)
NotifyAll(log, q) ==
    IF q = <<>> THEN log ELSE NotifyAll(sendErrorNotify(log, Head(q)), Tail(q))

\* the state test of initialize, had it let a READY device through
InitializableState_ready(state) == state \in {"OPENED", "READY"}

\* the state test of initialize: mState != State::OPENED is refused
InitializableState(state) == state = "OPENED"

\* one call of initialize as its caller sees it: the argument, mState before
\* and after, the status returned, whether a RequestThread was started
InitCall(callbackOps, before, ret, after, started) ==
    [callbackOps |-> callbackOps, before |-> before, ret |-> ret,
     after |-> after, started |-> started]

\* initialize; a failed RequestThread::run returns its status res
initialize(callbackOps, usable, hasFormats, runOk) ==
    /\ hal = "hal3"
    /\ pcCloseDevice \in {"none", "returned"}
    /\ Len(initLog) < MaxInitialize
    /\ IF ~callbackOps
       THEN /\ initLog' = Append(initLog, InitCall(callbackOps, mState, "-EINVAL", mState, FALSE))
            /\ UNCHANGED <<mState, mCallbackOps, mRequestThread, pcThread>>
       ELSE IF ~InitializableState(mState)
       THEN /\ initLog' = Append(initLog,
                   InitCall(callbackOps, mState,
                            IF mState = "ERROR" THEN "-ENODEV" ELSE "-EPIPE", mState, FALSE))
            /\ UNCHANGED <<mState, mCallbackOps, mRequestThread, pcThread>>
       ELSE IF ~usable \/ ~hasFormats
       THEN /\ mState' = "ERROR"
            /\ initLog' = Append(initLog, InitCall(callbackOps, mState, "-ENODEV", "ERROR", FALSE))
            /\ UNCHANGED <<mCallbackOps, mRequestThread, pcThread>>
       ELSE /\ mCallbackOps' = TRUE
            /\ IF runOk
               THEN /\ mState' = "READY"
                    /\ mRequestThread' = TRUE
                    /\ pcThread' = "wait"
                    /\ initLog' = Append(initLog, InitCall(callbackOps, mState, "OK", "READY", TRUE))
               ELSE /\ mState' = "ERROR"
                    /\ initLog' = Append(initLog, InitCall(callbackOps, mState, "res", "ERROR", FALSE))
                    /\ UNCHANGED <<mRequestThread, pcThread>>
    /\ UNCHANGED <<hal, vhalVars, staticVars, ledgerVars, provVars, aidlVars, mExitRequested, mRequestQueue, request,
                   pcCloseDevice, handed>>

\* RequestThread::enqueueRequest
enqueueRequest(fn) ==
    /\ hal = "hal3"
    /\ UNCHANGED initLog
    /\ mRequestThread
    /\ fn \in nextFn..MaxFrameNumber
    /\ nextFn' = fn + 1
    /\ submitted' = Append(submitted, fn)
    /\ IF mExitRequested THEN UNCHANGED mRequestQueue
       ELSE mRequestQueue' = Append(mRequestQueue, fn)
    /\ UNCHANGED <<hal, vhalVars, staticVars, ledgerVars, provVars, sessVars, mCurrentSession, workerVars, pcClose, clock, nPush,
                   nConfigure, released, delivered, flushMark, closeStatus, nClose,
                   nCloseSession, mState, mCallbackOps, mRequestThread, mExitRequested,
                   pcThread, request, pcCloseDevice, handed>>

\* RequestThread::flushRequests
flushRequests ==
    /\ hal = "hal3"
    /\ UNCHANGED initLog
    /\ mRequestThread
    /\ delivered' = NotifyAll(delivered, mRequestQueue)
    /\ mRequestQueue' = <<>>
    /\ flushMark' = [pushed |-> nPush, pos |-> Len(delivered'), configured |-> nConfigure,
                    done |-> TRUE]
    /\ UNCHANGED <<hal, vhalVars, staticVars, ledgerVars, provVars, sessVars, mCurrentSession, workerVars, pcClose, clock, nextFn,
                   nPush, nConfigure, released, submitted, closeStatus, nClose,
                   nCloseSession, mState, mCallbackOps, mRequestThread, mExitRequested,
                   pcThread, request, pcCloseDevice, handed>>

\* the request threadLoop would take if it took the newest one
NextRequest_newest(q) == [req |-> q[Len(q)], rest |-> SubSeq(q, 1, Len(q) - 1)]

\* mRequestQueue.front() and pop()
NextRequest(q) == [req |-> Head(q), rest |-> Tail(q)]

\* RequestThread::threadLoop, the block under mRequestLock
threadLoop_take ==
    /\ hal = "hal3"
    /\ UNCHANGED initLog
    /\ pcThread = "wait"
    /\ ~(mRequestQueue = <<>> /\ ~mExitRequested)
    /\ IF mExitRequested
       THEN /\ delivered' = NotifyAll(delivered, mRequestQueue)
            /\ mRequestQueue' = <<>>
            /\ pcThread' = "exited"
            /\ UNCHANGED request
       ELSE /\ request' = NextRequest(mRequestQueue).req
            /\ mRequestQueue' = NextRequest(mRequestQueue).rest
            /\ pcThread' = "process"
            /\ UNCHANGED delivered
    /\ UNCHANGED <<hal, vhalVars, staticVars, ledgerVars, provVars, sessVars, mCurrentSession, workerVars, pcClose, clock, nextFn,
                   nPush, nConfigure, released, submitted, flushMark, closeStatus, nClose,
                   nCloseSession, mState, mCallbackOps, mRequestThread, mExitRequested,
                   pcCloseDevice, handed>>

\* RequestThread::threadLoop, outside the lock: mParent->processOneCaptureRequest
threadLoop_process ==
    /\ hal = "hal3"
    /\ UNCHANGED initLog
    /\ pcThread = "process"
    /\ handed' = Append(handed, request)
    /\ request' = -1
    /\ pcThread' = "wait"
    /\ UNCHANGED <<hal, vhalVars, staticVars, ledgerVars, provVars, aidlVars, mState, mCallbackOps, mRequestThread, mExitRequested,
                   mRequestQueue, pcCloseDevice>>

\* closeDevice up to RequestThread::requestExitAndWait's join; a device
\* without a request thread is closed in this one step
closeDevice_begin ==
    /\ hal = "hal3"
    /\ UNCHANGED initLog
    /\ pcCloseDevice \in {"none", "returned"}
    /\ nClose < MaxClose
    /\ IF mState = "CLOSED"
       THEN /\ closeStatus' = "OK"
            /\ nClose' = nClose + 1
            /\ UNCHANGED <<mState, mExitRequested, mCallbackOps, pcCloseDevice>>
       ELSE /\ mState' = "CLOSED"
            /\ IF mRequestThread
               THEN /\ mExitRequested' = TRUE
                    /\ pcCloseDevice' = "join"
                    /\ UNCHANGED <<mCallbackOps, closeStatus, nClose>>
               ELSE /\ mCallbackOps' = FALSE
                    /\ pcCloseDevice' = "returned"
                    /\ closeStatus' = "OK"
                    /\ nClose' = nClose + 1
                    /\ UNCHANGED mExitRequested
    /\ UNCHANGED <<hal, vhalVars, staticVars, ledgerVars, provVars, sessVars, mCurrentSession, workerVars, pcClose, clock, nextFn,
                   nPush, nConfigure, released, delivered, submitted, flushMark,
                   nCloseSession, mRequestThread, mRequestQueue, pcThread, request,
                   handed>>

\* closeDevice after the join: mRequestThread.clear(), mCallbackOps = nullptr
closeDevice_finish ==
    /\ hal = "hal3"
    /\ UNCHANGED initLog
    /\ pcCloseDevice = "join"
    /\ pcThread = "exited"
    /\ mRequestThread' = FALSE
    /\ mCallbackOps' = FALSE
    /\ pcCloseDevice' = "returned"
    /\ closeStatus' = "OK"
    /\ nClose' = nClose + 1
    /\ UNCHANGED <<hal, vhalVars, staticVars, ledgerVars, provVars, sessVars, mCurrentSession, workerVars, pcClose, clock, nextFn,
                   nPush, nConfigure, released, delivered, submitted, flushMark,
                   nCloseSession, mState, mExitRequested, mRequestQueue, pcThread,
                   request, handed>>

\* ======================================================== specification

\* a session just returned by HalCameraDevice::open, its worker started
\* ==================================================== VirtualCameraHAL
FRAME_BUFFER_COUNT == 4

\* const size_t bufferSize = 1920 * 1080 * 4 in allocateFrameBuffers
bufferSize == 8294400

\* the sizes of the frames pushed: one that fits a buffer, one that does not
FrameSizes == {614400, bufferSize + 1}

\* mBufferMutex is a std::mutex: no thread holds it unless one is stopped
\* inside allocateFrameBuffers
BufferMutexFree == pcAllocate = "none"

\* freeFrameBuffers called by a thread that holds mBufferMutex: its first
\* statement is a lock_guard on the same non-recursive mutex, which the
\* thread waits for without end
freeFrameBuffers_locked == "selflock"

\* allocateFrameBuffers: lock_guard on mBufferMutex, then freeFrameBuffers();
\* the resize and the allocation loop come after that call
allocateFrameBuffers(count) ==
    /\ BufferMutexFree
    /\ pcAllocate' = freeFrameBuffers_locked
    /\ IF pcAllocate' = "none"
       THEN mFrameBuffers' = [i \in 1..count |-> [size |-> bufferSize, inUse |-> FALSE]]
       ELSE UNCHANGED mFrameBuffers

\* VirtualCameraHAL::initialize: createVirtualCameraDevice returns true and
\* setupStaticMetadata returns nothing, so allocateFrameBuffers is reached
\* whenever mInitialized is false; mInitialized is set after it returned
VirtualCameraHAL_initialize ==
    /\ hal = "vhal"
    /\ ~mInitialized
    /\ allocateFrameBuffers(FRAME_BUFFER_COUNT)
    /\ mInitialized' = (pcAllocate' = "none")
    /\ UNCHANGED <<hal, staticVars, ledgerVars, aidlVars, hal3Vars, provVars,
                   mPreviewEnabled, pushLog>>

start_preview ==
    /\ hal = "vhal"
    /\ ~mPreviewEnabled
    /\ mPreviewEnabled' = TRUE
    /\ UNCHANGED <<hal, staticVars, ledgerVars, aidlVars, hal3Vars, provVars,
                   mInitialized, mFrameBuffers, pcAllocate, pushLog>>

stop_preview ==
    /\ hal = "vhal"
    /\ mPreviewEnabled
    /\ mPreviewEnabled' = FALSE
    /\ UNCHANGED <<hal, staticVars, ledgerVars, aidlVars, hal3Vars, provVars,
                   mInitialized, mFrameBuffers, pcAllocate, pushLog>>

\* the index of the first buffer that is not in use, 0 when there is none
FirstFree(buffers) ==
    IF \A i \in DOMAIN buffers : buffers[i].inUse THEN 0
    ELSE CHOOSE i \in DOMAIN buffers :
            /\ ~buffers[i].inUse
            /\ \A j \in 1..(i - 1) : buffers[j].inUse

\* getAvailableBuffer on a pool with a free buffer: buffer.inUse = true
getAvailableBuffer(buffers) ==
    [buffers EXCEPT ![FirstFree(buffers)].inUse = TRUE]

\* returnBuffer: buffer->inUse = false
returnBuffer(buffers, i) == [buffers EXCEPT ![i].inUse = FALSE]

\* pushVideoFrame: false unless initialized and previewing, false when
\* getAvailableBuffer returns nullptr, false for a frame larger than the
\* buffer; the buffer taken is returned before either of the two last returns
pushVideoFrame(size) ==
    /\ hal = "vhal"
    /\ Len(pushLog) < MaxPush
    /\ IF ~mInitialized \/ ~mPreviewEnabled
       THEN /\ pushLog' = Append(pushLog, FALSE)
            /\ UNCHANGED mFrameBuffers
       ELSE /\ BufferMutexFree
            /\ IF FirstFree(mFrameBuffers) = 0
               THEN /\ pushLog' = Append(pushLog, FALSE)
                    /\ UNCHANGED mFrameBuffers
               ELSE LET i == FirstFree(mFrameBuffers)
                        taken == getAvailableBuffer(mFrameBuffers)
                    IN /\ pushLog' = Append(pushLog, taken[i].size >= size)
                       /\ mFrameBuffers' = returnBuffer(taken, i)
    /\ UNCHANGED <<hal, staticVars, ledgerVars, aidlVars, hal3Vars, provVars,
                   mInitialized, mPreviewEnabled, pcAllocate>>

\* a VirtualCameraHAL whose construction has reached the call of
\* allocateFrameBuffers: no buffers, nothing enabled
InitVhal ==
    /\ mInitialized = FALSE
    /\ mPreviewEnabled = FALSE
    /\ mFrameBuffers = <<>>
    /\ pcAllocate = "none"
    /\ pushLog = <<>>

\* ======================================= HalCameraProvider, HalCameraDevice
mVirtualCameraId == "0"

\* camera ids the callers use: the virtual camera's and one the provider
\* does not know
CameraIds == {mVirtualCameraId, "1"}

\* HalCameraProvider::mLock is not held: no thread is stuck inside a method
\* that locked it
MutexLockFree == pcSignal = "none" /\ pcCleanup = "none"

\* HalCameraProvider::setCallback
setCallback(in_callback) ==
    /\ hal = "prov"
    /\ MutexLockFree
    /\ mProviderCallback' = in_callback
    /\ UNCHANGED <<hal, vhalVars, staticVars, ledgerVars, aidlVars, hal3Vars, mIsDeviceAvailable, mCameraDeviceInstance,
                   statusLog, lastSignal, nSignal, getLog, openLog, pcSignal, pcCleanup>>

\* the list getCameraIdList would return had it not looked at the flag
getCameraIdList_all == <<mVirtualCameraId>>

\* HalCameraProvider::getCameraIdList: what it puts into *_aidl_return
getCameraIdList == IF mIsDeviceAvailable THEN <<mVirtualCameraId>> ELSE <<>>

\* the flag test of signalDeviceAvailable if every call counted as a change
NoChange_never(available) == FALSE

\* signalDeviceAvailable: mIsDeviceAvailable == available
NoChange(available) == mIsDeviceAvailable = available

\* HalCameraProvider::signalDeviceAvailable, called through JNI
signalDeviceAvailable(cameraId, available) ==
    /\ hal = "prov"
    /\ MutexLockFree
    /\ nSignal < MaxSignal
    /\ nSignal' = nSignal + 1
    /\ IF cameraId # mVirtualCameraId
       THEN UNCHANGED <<mIsDeviceAvailable, statusLog, lastSignal>>
       ELSE /\ lastSignal' = IF available THEN "true" ELSE "false"
            /\ IF NoChange(available)
               THEN UNCHANGED <<mIsDeviceAvailable, statusLog>>
               ELSE /\ mIsDeviceAvailable' = available
                    /\ statusLog' =
                           IF mProviderCallback
                           THEN Append(statusLog,
                                       [cameraId |-> cameraId,
                                        status |-> IF available THEN "PRESENT"
                                                   ELSE "NOT_PRESENT"])
                           ELSE statusLog
    /\ UNCHANGED <<hal, vhalVars, staticVars, ledgerVars, aidlVars, hal3Vars, mProviderCallback, mCameraDeviceInstance,
                   getLog, openLog, pcSignal, pcCleanup>>

\* signalDeviceAvailable for the virtual camera whose cameraDeviceStatusChange
\* receiver calls getCameraIdList (or getCameraDeviceInterface, setCallback)
\* before it returns: the callback is made under mLock, the re-entered method
\* locks mLock again on the same thread.  Locking a std::mutex its owner holds
\* blocks for ever or fails with resource_deadlock_would_occur; in neither
\* case does the call return, and mLock stays locked.
cameraDeviceStatusChange_reenters(available) ==
    /\ hal = "prov"
    /\ MutexLockFree
    /\ nSignal < MaxSignal
    /\ nSignal' = nSignal + 1
    /\ ~NoChange(available)
    /\ mProviderCallback
    /\ lastSignal' = IF available THEN "true" ELSE "false"
    /\ mIsDeviceAvailable' = available
    /\ statusLog' = Append(statusLog,
                           [cameraId |-> mVirtualCameraId,
                            status |-> IF available THEN "PRESENT" ELSE "NOT_PRESENT"])
    /\ pcSignal' = "selflock"
    /\ UNCHANGED <<hal, vhalVars, staticVars, ledgerVars, aidlVars, hal3Vars, mProviderCallback, mCameraDeviceInstance,
                   getLog, openLog, pcCleanup>>

\* the device getOrCreateCameraDeviceInternal would return if it made a new
\* HalCameraDevice on every call
getOrCreateCameraDeviceInternal_fresh(cameraDeviceName) ==
    IF cameraDeviceName # mVirtualCameraId THEN 0
    ELSE mCameraDeviceInstance + 1

\* getOrCreateCameraDeviceInternal: the device it returns and caches
getOrCreateCameraDeviceInternal(cameraDeviceName) ==
    IF cameraDeviceName # mVirtualCameraId THEN 0
    ELSE IF mCameraDeviceInstance = 0 THEN 1
    ELSE mCameraDeviceInstance

\* one entry of getLog: the status and *_aidl_return
GetResult(status, device) == [status |-> status, device |-> device]

\* HalCameraProvider::getCameraDeviceInterface
getCameraDeviceInterface(in_cameraDeviceName) ==
    /\ hal = "prov"
    /\ MutexLockFree
    /\ Len(getLog) < MaxGetDevice
    /\ IF in_cameraDeviceName # mVirtualCameraId
       THEN /\ getLog' = Append(getLog, GetResult("ILLEGAL_ARGUMENT", 0))
            /\ UNCHANGED mCameraDeviceInstance
       ELSE IF ~mIsDeviceAvailable
       THEN /\ getLog' = Append(getLog, GetResult("DEVICE_UNAVAILABLE", 0))
            /\ UNCHANGED mCameraDeviceInstance
       ELSE LET device == getOrCreateCameraDeviceInternal(in_cameraDeviceName)
            IN  /\ mCameraDeviceInstance' = device
                /\ getLog' = Append(getLog,
                                    IF device = 0 THEN GetResult("CAMERA_IN_USE", 0)
                                    ELSE GetResult("OK", device))
    /\ UNCHANGED <<hal, vhalVars, staticVars, ledgerVars, aidlVars, hal3Vars, mIsDeviceAvailable, mProviderCallback,
                   statusLog, lastSignal, nSignal, openLog, pcSignal, pcCleanup>>

\* the framework holds an ICameraDevice a getCameraDeviceInterface call gave it
DeviceHandle == \E i \in DOMAIN getLog : getLog[i].status = "OK"

\* the in-use test of open if it let every call through
CameraInUse_never == FALSE

\* HalCameraDevice::open: if (mCurrentSession)
CameraInUse == mCurrentSession

\* HalCameraDevice::open on the device handle; in_callback is FALSE for nullptr.
\* A successful open constructs a HalCameraSession, which starts its thread.
open(in_callback) ==
    /\ hal = "prov"
    /\ DeviceHandle
    /\ Len(openLog) < MaxOpen
    /\ IF CameraInUse
       THEN /\ openLog' = Append(openLog, "EBUSY")
            /\ UNCHANGED <<sessVars, mCurrentSession, workerVars, pcClose, closeStatus,
                           nClose, nCloseSession>>
       ELSE IF ~in_callback
       THEN /\ openLog' = Append(openLog, "EX_ILLEGAL_ARGUMENT")
            /\ UNCHANGED <<sessVars, mCurrentSession, workerVars, pcClose, closeStatus,
                           nClose, nCloseSession>>
       ELSE /\ openLog' = Append(openLog, "OK")
            /\ mIsClosing' = FALSE
            /\ mStreamsConfigured' = FALSE
            /\ mConfiguredHalStreams' = <<>>
            /\ mActiveStreamInfo' = DefaultStream
            /\ mHardwareBuffers' = <<>>
            /\ mNextAvailableBufferIdx' = 0
            /\ mFrameQueue' = <<>>
            /\ mFrameNumber' = 0
            /\ mFrameworkCallback' = in_callback
            /\ mParentDevice' = TRUE
            /\ mCurrentSession' = TRUE
            /\ pcWorker' = "wait"
            /\ rawFrame' = NoFrame
            /\ outputHwBuffer' = NoBuffer
            /\ currentBufferIdx' = -1
            /\ pcClose' = "none"
            /\ closeStatus' = "NONE"
            /\ nClose' = 0
            /\ nCloseSession' = 0
    /\ UNCHANGED <<hal, vhalVars, staticVars, ledgerVars, hal3Vars, mIsDeviceAvailable, mProviderCallback,
                   mCameraDeviceInstance, statusLog, lastSignal, nSignal, getLog,
                   pcSignal, pcCleanup, clock, nextFn, nPush, nConfigure, released, delivered, submitted,
                   flushMark>>

\* ~HalCameraDevice run by a thread that holds HalCameraProvider::mLock: it
\* calls mParentProvider->onDeviceClosed, which locks mLock on the same
\* thread.  Locking a std::mutex its owner holds blocks for ever or fails
\* with resource_deadlock_would_occur; in neither case does the call return.
DeviceDestroyedUnderLock == "selflock"

\* HalCameraProvider::cleanup, which ~HalCameraProvider calls.  lastReference:
\* the framework dropped every ICameraDevice it got, so that the reset of
\* mCameraDeviceInstance destroys the HalCameraDevice; the framework closes a
\* session before it drops the device, so the device destroyed here has none.
cleanup(lastReference) ==
    /\ hal = "prov"
    /\ MutexLockFree
    /\ lastReference => ~mCurrentSession
    /\ IF mCameraDeviceInstance # 0 /\ lastReference
       THEN /\ pcCleanup' = DeviceDestroyedUnderLock
            /\ IF pcCleanup' = "returned"
               THEN mCameraDeviceInstance' = 0 /\ mProviderCallback' = FALSE
               ELSE UNCHANGED <<mCameraDeviceInstance, mProviderCallback>>
       ELSE /\ mCameraDeviceInstance' = 0
            /\ mProviderCallback' = FALSE
            /\ pcCleanup' = "returned"
    /\ UNCHANGED <<hal, vhalVars, staticVars, ledgerVars, aidlVars, hal3Vars, mIsDeviceAvailable,
                   statusLog, lastSignal, nSignal, getLog, openLog, pcSignal>>

\* ============================================== static characteristics
\* values of the enums the tables hold
HAL_PIXEL_FORMAT_YCrCb_420_SP == 17
HAL_PIXEL_FORMAT_YCbCr_422_I == 20
HAL_PIXEL_FORMAT_BLOB == 33
HAL_PIXEL_FORMAT_YCbCr_420_888 == 35
ANDROID_SCALER_AVAILABLE_STREAM_CONFIGURATIONS_OUTPUT == 0
NANOS_PER_SECOND == 1000000000

kDefaultWidth == 640
kDefaultHeight == 480
kDefaultPixelFormat == HAL_PIXEL_FORMAT_YCbCr_420_888
kDefaultFps == 30

\* static_cast between PixelFormat and int32_t
PixelFormatValue(format) ==
    CASE format = "YCBCR_420_888" -> HAL_PIXEL_FORMAT_YCbCr_420_888
      [] format = "BLOB" -> HAL_PIXEL_FORMAT_BLOB
      [] OTHER -> 0

\* add_camera_metadata_entry(dst, tag, data, data_count): the entry holds the
\* first data_count values of data
add_camera_metadata_entry(data, data_count) == SubSeq(data, 1, data_count)

\* ---- HalCameraDevice::initializeCharacteristics
streamConfigs ==
    <<kDefaultPixelFormat, kDefaultWidth, kDefaultHeight,
      ANDROID_SCALER_AVAILABLE_STREAM_CONFIGURATIONS_OUTPUT,
      kDefaultPixelFormat, 1280, 720,
      ANDROID_SCALER_AVAILABLE_STREAM_CONFIGURATIONS_OUTPUT,
      kDefaultPixelFormat, 1920, 1080,
      ANDROID_SCALER_AVAILABLE_STREAM_CONFIGURATIONS_OUTPUT>>

minFrameDurations ==
    <<kDefaultPixelFormat, kDefaultWidth, kDefaultHeight, NANOS_PER_SECOND \div kDefaultFps,
      kDefaultPixelFormat, 1280, 720, NANOS_PER_SECOND \div kDefaultFps,
      kDefaultPixelFormat, 1920, 1080, NANOS_PER_SECOND \div kDefaultFps>>

stallDurations ==
    <<kDefaultPixelFormat, kDefaultWidth, kDefaultHeight, 0,
      kDefaultPixelFormat, 1280, 720, 0,
      kDefaultPixelFormat, 1920, 1080, 0>>

\* the three tables of the metadata the constructor copies into
\* mStaticCharacteristics (the allocation succeeds)
initializeCharacteristics ==
    [streamConfigurations |->
         add_camera_metadata_entry(streamConfigs, Len(streamConfigs) \div 4),
     minFrameDurations |->
         add_camera_metadata_entry(minFrameDurations, Len(minFrameDurations) \div 4),
     stallDurations |->
         add_camera_metadata_entry(stallDurations, Len(stallDurations) \div 4)]

\* ---- HalCameraDevice::isStreamCombinationSupported
\* the loop over the ANDROID_SCALER_AVAILABLE_STREAM_CONFIGURATIONS entry
found(entry, stream) ==
    /\ Len(entry) > 0
    /\ Len(entry) % 4 = 0
    /\ \E k \in 0..(Len(entry) \div 4 - 1) :
          LET i == 4 * k + 1
          IN /\ entry[i] = PixelFormatValue(stream.format)
             /\ entry[i + 1] = stream.width
             /\ entry[i + 2] = stream.height
             /\ entry[i + 3] = ANDROID_SCALER_AVAILABLE_STREAM_CONFIGURATIONS_OUTPUT

isStreamCombinationSupported(config) ==
    /\ hal = "characteristics"
    /\ supportedLog' =
          <<[in_config |-> config,
             aidl_return |->
                 IF Len(config) # 1 THEN FALSE
                 ELSE IF config[1].streamType # "OUTPUT" THEN FALSE
                 ELSE found(mStaticCharacteristics.streamConfigurations, config[1])]>>
    /\ UNCHANGED <<hal, vhalVars, ledgerVars, mStaticCharacteristics, mSupportedV4L2Formats, mStaticInfo,
                   aidlVars, hal3Vars, provVars>>

\* ---- UvcCamera3Device::initStaticMetadata
V4L2FormatInfo(pixel_format, width, height, frame_rates) ==
    [pixel_format |-> pixel_format, width |-> width, height |-> height,
     frame_rates |-> frame_rates]

v4l2ToHalFormatMap ==
    [YUYV |-> HAL_PIXEL_FORMAT_YCbCr_422_I,
     YU12 |-> HAL_PIXEL_FORMAT_YCbCr_420_888,
     NV12 |-> HAL_PIXEL_FORMAT_YCbCr_420_888,
     NV21 |-> HAL_PIXEL_FORMAT_YCrCb_420_SP]

NoTables == [streamConfigsData |-> <<>>, minFrameDurationsData |-> <<>>,
             stallDurationsData |-> <<>>]

\* the quadruples one pass of "for (float fps : fpsList)" appends to a
\* duration vector: the frame duration of every positive rate, or 0 for stall
RECURSIVE DurationsOf(_, _, _, _, _)
DurationsOf(format, w, h, fpsList, stall) ==
    IF fpsList = <<>> THEN <<>>
    ELSE (IF Head(fpsList) > 0
          THEN <<format, w, h,
                 IF stall THEN 0 ELSE NANOS_PER_SECOND \div Head(fpsList)>>
          ELSE <<>>)
         \o DurationsOf(format, w, h, Tail(fpsList), stall)

addUniqueStreamConfig(tables, format, w, h, fpsList) ==
    LET data == tables.streamConfigsData
        exists == \E k \in 0..(Len(data) \div 4 - 1) :
                     /\ data[4 * k + 1] = format
                     /\ data[4 * k + 2] = w
                     /\ data[4 * k + 3] = h
    IN IF exists THEN tables
       ELSE [streamConfigsData |->
                 data \o <<format, w, h,
                           ANDROID_SCALER_AVAILABLE_STREAM_CONFIGURATIONS_OUTPUT>>,
             minFrameDurationsData |->
                 tables.minFrameDurationsData \o DurationsOf(format, w, h, fpsList, FALSE),
             stallDurationsData |->
                 tables.stallDurationsData \o DurationsOf(format, w, h, fpsList, TRUE)]

\* the body of "for (const auto& fmt_info : mSupportedV4L2Formats)"
addFormat(tables, fmt_info) ==
    LET pf == fmt_info.pixel_format
        direct == IF pf \in DOMAIN v4l2ToHalFormatMap
                  THEN addUniqueStreamConfig(tables, v4l2ToHalFormatMap[pf], fmt_info.width,
                                             fmt_info.height, fmt_info.frame_rates)
                  ELSE tables
        blob == IF pf = "MJPG"
                THEN addUniqueStreamConfig(direct, HAL_PIXEL_FORMAT_BLOB, fmt_info.width,
                                           fmt_info.height, fmt_info.frame_rates)
                ELSE direct
    IN IF pf \in {"YUYV", "MJPG"}
       THEN addUniqueStreamConfig(blob, HAL_PIXEL_FORMAT_YCbCr_420_888, fmt_info.width,
                                  fmt_info.height, fmt_info.frame_rates)
       ELSE blob

RECURSIVE addFormats(_, _)
addFormats(tables, formats) ==
    IF formats = <<>> THEN tables
    ELSE addFormats(addFormat(tables, Head(formats)), Tail(formats))

\* the constructor's call, made once after enumFormats(); the metadata is
\* allocated, and an empty vector adds no entry
initStaticMetadata ==
    /\ hal = "metadata"
    /\ ~mStaticInfo.allocated
    /\ mStaticInfo' =
          [allocated |-> TRUE,
           tables |-> IF mSupportedV4L2Formats = <<>> THEN NoTables
                      ELSE addFormats(NoTables, mSupportedV4L2Formats)]
    /\ UNCHANGED <<hal, vhalVars, ledgerVars, mStaticCharacteristics, supportedLog, mSupportedV4L2Formats,
                   aidlVars, hal3Vars, provVars>>

\* ---- inputs
\* StreamConfiguration values given to isStreamCombinationSupported: up to
\* MaxQueryStreams streams, of either type, in a listed and an unlisted
\* format, in the three listed sizes and an unlisted one
MaxQueryStreams == 2

QueryStreams ==
    { Stream(1, type, fmt, size[1], size[2]) :
        type \in {"OUTPUT", "INPUT"}, fmt \in {"YCBCR_420_888", "BLOB"},
        size \in {<<640, 480>>, <<1280, 720>>, <<1920, 1080>>, <<320, 240>>} }

QueryConfigs ==
    UNION { [1..n -> QueryStreams] : n \in 0..MaxQueryStreams }

\* what V4L2Device::enumFormats() can return: up to MaxFormats formats
MaxFormats == 2

FrameRateLists == { <<>>, <<0>>, <<30>>, <<30, 15>> }

V4L2Formats ==
    { V4L2FormatInfo(pf, size[1], size[2], rates) :
        pf \in {"YUYV", "MJPG", "NV12", "RGB3"},
        size \in {<<640, 480>>, <<1280, 720>>},
        rates \in FrameRateLists }

FormatLists ==
    UNION { [1..n -> V4L2Formats] : n \in 0..MaxFormats }

NoStaticInfo == [allocated |-> FALSE, tables |-> NoTables]       \* nullptr

\* ============================================================ initial state
\* a HalCameraProvider just constructed, nothing called on it
InitProvider ==
    /\ mIsDeviceAvailable = FALSE
    /\ mProviderCallback = FALSE
    /\ mCameraDeviceInstance = 0
    /\ statusLog = <<>>
    /\ lastSignal = "none"
    /\ nSignal = 0
    /\ getLog = <<>>
    /\ openLog = <<>>
    /\ pcSignal = "none"
    /\ pcCleanup = "none"

InitAidl ==
    /\ mIsClosing = FALSE
    /\ mStreamsConfigured = FALSE
    /\ mConfiguredHalStreams = <<>>
    /\ mActiveStreamInfo = DefaultStream
    /\ mHardwareBuffers = <<>>
    /\ mNextAvailableBufferIdx = 0
    /\ mFrameQueue = <<>>
    /\ mFrameNumber = 0
    /\ mFrameworkCallback = TRUE
    /\ mParentDevice = TRUE
    /\ mCurrentSession = TRUE
    /\ pcWorker = "wait"
    /\ rawFrame = NoFrame
    /\ outputHwBuffer = NoBuffer
    /\ currentBufferIdx = -1
    /\ pcClose = "none"

\* no UvcCamera3Device exists
NoDevice ==
    /\ mState = "CLOSED"
    /\ mCallbackOps = FALSE
    /\ mRequestThread = FALSE
    /\ mExitRequested = FALSE
    /\ mRequestQueue = <<>>
    /\ pcThread = "none"
    /\ request = -1
    /\ pcCloseDevice = "none"
    /\ handed = <<>>
    /\ initLog = <<>>

\* a UvcCamera3Device just constructed by the factory: OPENED, or ERROR when
\* its V4L2Device is not open
InitHal3 ==
    /\ mState \in {"OPENED", "ERROR"}
    /\ mCallbackOps = FALSE
    /\ mRequestThread = FALSE
    /\ mExitRequested = FALSE
    /\ mRequestQueue = <<>>
    /\ pcThread = "none"
    /\ request = -1
    /\ pcCloseDevice = "none"
    /\ handed = <<>>
    /\ initLog = <<>>

\* no HalCameraSession exists
NoSession ==
    /\ mIsClosing = FALSE
    /\ mStreamsConfigured = FALSE
    /\ mConfiguredHalStreams = <<>>
    /\ mActiveStreamInfo = DefaultStream
    /\ mHardwareBuffers = <<>>
    /\ mNextAvailableBufferIdx = 0
    /\ mFrameQueue = <<>>
    /\ mFrameNumber = 0
    /\ mFrameworkCallback = FALSE
    /\ mParentDevice = FALSE
    /\ mCurrentSession = FALSE
    /\ pcWorker = "done"
    /\ rawFrame = NoFrame
    /\ outputHwBuffer = NoBuffer
    /\ currentBufferIdx = -1
    /\ pcClose = "none"

InitEnv ==
    /\ InitVhal
    /\ allocated = {}
    /\ releaseCalls = EmptyBag
    /\ destroyed = FALSE
    /\ clock = 0
    /\ nextFn = 0
    /\ nPush = 0
    /\ nConfigure = 0
    /\ released = {}
    /\ delivered = <<>>
    /\ submitted = <<>>
    /\ flushMark = [pushed |-> 0, pos |-> 0, configured |-> 0, done |-> FALSE]
    /\ closeStatus = "NONE"
    /\ nClose = 0
    /\ nCloseSession = 0

\* the tables of a constructed HalCameraDevice; no query made yet, and no
\* UvcCamera3Device static metadata
InitStatic ==
    /\ mStaticCharacteristics = initializeCharacteristics
    /\ supportedLog = <<>>
    /\ mSupportedV4L2Formats = <<>>
    /\ mStaticInfo = NoStaticInfo

Init ==
    /\ hal \in {"aidl", "hal3", "prov", "vhal"}
    /\ InitEnv
    /\ InitProvider
    /\ InitStatic
    /\ IF hal = "aidl" THEN InitAidl /\ NoDevice
       ELSE IF hal = "hal3" THEN NoSession /\ InitHal3
       ELSE NoSession /\ NoDevice

\* where AHardwareBuffer_allocate fails in the session behaviours: at the
\* first buffer, after one buffer, or not at all
FailPoints == {0, 1, kNumStreamBuffers}

NextAidl ==
    \/ \E cfg \in Configs, failAt \in FailPoints : configureStreams(cfg, failAt)
    \/ \E fn \in 0..MaxFrameNumber, hasOutputs \in BOOLEAN :
          processCaptureRequest(fn, hasOutputs)
    \/ \E f \in FrameInputs : nPush < MaxPush /\ pushNewFrame(f)
    \/ frameProcessingLoop_take
    \/ \E lockOk \in BOOLEAN, unlockOk \in BOOLEAN, handleOk \in BOOLEAN,
          yuy2Ok \in BOOLEAN, decoded \in DecodedSizes(rawFrame.width, rawFrame.height) :
          frameProcessingLoop_process(lockOk, unlockOk, decoded, yuy2Ok, handleOk)
    \/ \E yuy2Ok \in BOOLEAN, decoded \in DecodedSizes(rawFrame.width, rawFrame.height) :
          close_in_callback(decoded, yuy2Ok)
    \/ flush
    \/ close_begin
    \/ close_finish

NextHal3 ==
    \/ \E callbackOps \in BOOLEAN, usable \in BOOLEAN, hasFormats \in BOOLEAN,
          runOk \in BOOLEAN : initialize(callbackOps, usable, hasFormats, runOk)
    \/ \E fn \in 0..MaxFrameNumber : enqueueRequest(fn)
    \/ flushRequests
    \/ threadLoop_take
    \/ threadLoop_process
    \/ closeDevice_begin
    \/ closeDevice_finish

NextProv ==
    \/ \E in_callback \in BOOLEAN : setCallback(in_callback)
    \/ \E cameraId \in CameraIds, available \in BOOLEAN :
          signalDeviceAvailable(cameraId, available)
    \/ \E available \in BOOLEAN : cameraDeviceStatusChange_reenters(available)
    \/ \E in_cameraDeviceName \in CameraIds : getCameraDeviceInterface(in_cameraDeviceName)
    \/ \E in_callback \in BOOLEAN : open(in_callback)
    \/ \E lastReference \in BOOLEAN : cleanup(lastReference)

\* one session that is configured once or twice with the 640x480 stream and
\* fed good YUYV frames of that size, up to MaxRingPush of them: enough to
\* fill the frame queue and to go round the ring.  The framework submits its
\* requests when the frame queue is full, and may call close.
GoodFrame == [width |-> 640, height |-> 480, uvcFormat |-> UVC_FORMAT_YUYV]

InitRing == Init /\ hal = "aidl"

NextRing ==
    \/ configureStreams(<<S640>>, kNumStreamBuffers)
    \/ \E fn \in 0..MaxFrameNumber :
          ~QueueHasRoom(mFrameQueue) /\ processCaptureRequest(fn, TRUE)
    \/ nPush < MaxRingPush /\ pushNewFrame(GoodFrame)
    \/ frameProcessingLoop_take
    \/ \E decoded \in DecodedSizes(rawFrame.width, rawFrame.height) :
          frameProcessingLoop_process(TRUE, TRUE, decoded, TRUE, TRUE)
    \/ close_begin

vars == <<hal, staticVars, ledgerVars, vhalVars, aidlVars, hal3Vars, provVars>>

NextVhal ==
    \/ VirtualCameraHAL_initialize
    \/ start_preview
    \/ stop_preview
    \/ \E size \in FrameSizes : pushVideoFrame(size)

Next == NextAidl \/ NextHal3 \/ NextProv \/ NextVhal

Spec == Init /\ [][Next]_vars

SpecRing == InitRing /\ [][NextRing]_vars

\* the life of one session up to its destruction: every configureStreams
\* outcome, flush, close and the destructor, with a frame source and the
\* worker running until close stops them
NextBuffers ==
    \/ \E cfg \in Configs, failAt \in 0..kNumStreamBuffers :
          ~destroyed /\ configureStreams(cfg, failAt)
    \/ ~destroyed /\ nPush < MaxPush /\ pushNewFrame(GoodFrame)
    \/ ~destroyed /\ frameProcessingLoop_take
    \/ \E decoded \in DecodedSizes(rawFrame.width, rawFrame.height) :
          frameProcessingLoop_process(TRUE, TRUE, decoded, TRUE, TRUE)
    \/ ~destroyed /\ flush
    \/ ~destroyed /\ close_begin
    \/ close_finish
    \/ destroySession

SpecBuffers == InitRing /\ [][NextBuffers]_vars

\* the session and the UVC device under fair scheduling: a worker thread
\* that can take a step takes one, and a join returns once the thread ended
WorkerStep ==
    \/ frameProcessingLoop_take
    \/ \E lockOk \in BOOLEAN, unlockOk \in BOOLEAN, handleOk \in BOOLEAN,
          yuy2Ok \in BOOLEAN, decoded \in DecodedSizes(rawFrame.width, rawFrame.height) :
          frameProcessingLoop_process(lockOk, unlockOk, decoded, yuy2Ok, handleOk)

RequestThreadStep == threadLoop_take \/ threadLoop_process

InitClose == Init /\ hal \in {"aidl", "hal3"}

\* every operation that touches the frame queue, the configuration or the
\* closing flag; the capture requests of the session, which the worker never
\* looks at, are left out
NextClose ==
    \/ \E cfg \in Configs, failAt \in FailPoints : configureStreams(cfg, failAt)
    \/ \E f \in FrameInputs : nPush < MaxPush /\ pushNewFrame(f)
    \/ WorkerStep
    \/ \E yuy2Ok \in BOOLEAN, decoded \in DecodedSizes(rawFrame.width, rawFrame.height) :
          close_in_callback(decoded, yuy2Ok)
    \/ flush
    \/ close_begin
    \/ close_finish
    \/ NextHal3

SpecClose ==
    /\ InitClose /\ [][NextClose]_vars
    /\ WF_vars(WorkerStep) /\ WF_vars(close_finish)
    /\ WF_vars(RequestThreadStep) /\ WF_vars(closeDevice_finish)

\* the UvcCamera3Device and its request thread alone
InitHal3Only == Init /\ hal = "hal3"

SpecHal3 == InitHal3Only /\ [][NextHal3]_vars

\* a constructed HalCameraDevice that is asked about stream combinations
InitCharacteristics ==
    /\ hal = "characteristics"
    /\ InitEnv /\ InitProvider /\ NoSession /\ NoDevice
    /\ InitStatic

NextCharacteristics ==
    \E config \in QueryConfigs : isStreamCombinationSupported(config)

SpecCharacteristics == InitCharacteristics /\ [][NextCharacteristics]_vars

\* the UvcCamera3Device constructor between enumFormats() and
\* initStaticMetadata(), for every list of formats the device can report
InitMetadata ==
    /\ hal = "metadata"
    /\ InitEnv /\ InitProvider /\ NoSession /\ NoDevice
    /\ mStaticCharacteristics = initializeCharacteristics
    /\ supportedLog = <<>>
    /\ mSupportedV4L2Formats \in FormatLists
    /\ mStaticInfo = NoStaticInfo

NextMetadata == initStaticMetadata

SpecMetadata == InitMetadata /\ [][NextMetadata]_vars

\* ================================================================ claims

\* positions in the callback log of the calls of one kind
Calls(log, type) == {i \in DOMAIN log : log[i].type = type}

\* positions in the callback log of the calls of one kind for one frame number
CallsFor(log, type, fn) == {i \in Calls(log, type) : log[i].frameNumber = fn}

\* the k-th call of one kind in the callback log
Nth(log, type, k) ==
    log[CHOOSE i \in Calls(log, type) :
            Cardinality({j \in Calls(log, type) : j <= i}) = k]

\* frame numbers given to processCaptureRequest / enqueueRequest so far
Submitted == {submitted[k] : k \in DOMAIN submitted}

\* position of a frame number in the order of submission
SubmitPos(fn) == CHOOSE k \in DOMAIN submitted : submitted[k] = fn

\* close() has returned on the session
SessionClosed == hal = "aidl" /\ pcClose = "returned"

\* C1: every submitted request ends in exactly one of two ways: one SHUTTER
\* followed by one CaptureResult for its frame number and no ERROR, or one
\* ERROR and no CaptureResult; an accepted request has ended in one of them
\* at the latest when close has returned.
C1_ShutterThenResultOrOneError ==
    \A fn \in Submitted :
        /\ Cardinality(CallsFor(delivered, "RESULT", fn)) <= 1
        /\ Cardinality(CallsFor(delivered, "ERROR", fn)) <= 1
        /\ CallsFor(delivered, "RESULT", fn) # {} =>
              /\ Cardinality(CallsFor(delivered, "SHUTTER", fn)) = 1
              /\ CallsFor(delivered, "ERROR", fn) = {}
              /\ \A i \in CallsFor(delivered, "SHUTTER", fn),
                    j \in CallsFor(delivered, "RESULT", fn) : i < j
        /\ (SessionClosed /\ CallsFor(delivered, "SHUTTER", fn) # {}) =>
              \/ CallsFor(delivered, "RESULT", fn) # {}
              \/ CallsFor(delivered, "ERROR", fn) # {}

\* C2: the session never delivered more CaptureResults than SHUTTERs.
C2_ResultsAtMostShutters ==
    Cardinality(Calls(delivered, "RESULT")) <= Cardinality(Calls(delivered, "SHUTTER"))

\* C3: SHUTTERs are delivered in the order of submission, CaptureResults in
\* the order of their frame numbers and of the frames they were made from,
\* and the request thread passes requests to processOneCaptureRequest in the
\* order enqueueRequest received them.
C3_Fifo ==
    /\ \A i, j \in Calls(delivered, "SHUTTER") :
          i < j => SubmitPos(delivered[i].frameNumber) < SubmitPos(delivered[j].frameNumber)
    /\ \A i, j \in Calls(delivered, "RESULT") :
          i < j => /\ delivered[i].frameNumber < delivered[j].frameNumber
                   /\ delivered[i].seq < delivered[j].seq
    /\ \A i, j \in DOMAIN handed :
          i < j => SubmitPos(handed[i]) < SubmitPos(handed[j])

\* two requests went through the request thread
C3_Witness == hal = "hal3" /\ Len(handed) = 2

\* C4: the k-th CaptureResult carries the frame number of the k-th accepted
\* request.
C4_ResultFrameNumberIsRequests ==
    \A k \in 1..Len(delivered) :
        (/\ k <= Cardinality(Calls(delivered, "RESULT"))
         /\ k <= Cardinality(Calls(delivered, "SHUTTER")))
        => Nth(delivered, "RESULT", k).frameNumber = Nth(delivered, "SHUTTER", k).frameNumber

\* C5: a CaptureResult and a SHUTTER of the same frame number carry the same
\* timestamp.
C5_ResultTimestampIsShutters ==
    \A i \in Calls(delivered, "SHUTTER"), j \in Calls(delivered, "RESULT") :
        delivered[i].frameNumber = delivered[j].frameNumber
        => delivered[i].timestamp = delivered[j].timestamp

\* C6: once close has returned on the session, no step calls notify or
\* processCaptureResult on its callback.
C6_SilentAfterClose == [][SessionClosed => delivered' = delivered]_vars

\* a request was submitted to the closed session and nothing was delivered for it
C6_Witness ==
    /\ SessionClosed
    /\ \E fn \in Submitted : \A i \in DOMAIN delivered : delivered[i].frameNumber # fn

\* a request flush leaves without SHUTTER: none was delivered for it, and in
\* hal3 the request thread has not taken it for processOneCaptureRequest
Unshuttered(log, fn) ==
    /\ CallsFor(log, "SHUTTER", fn) = {}
    /\ request # fn
    /\ \A i \in DOMAIN handed : handed[i] # fn

\* a flush or flushRequests call returns in this step
FlushReturns == flushMark' # flushMark

LateResults ==
    {i \in Calls(delivered, "RESULT") :
        i > flushMark.pos /\ delivered[i].seq <= flushMark.pushed}

\* C8: after flush returned, at most one CaptureResult is delivered for a
\* frame pushed before the flush.
C8_AtMostOneResultAfterFlush == flushMark.done => Cardinality(LateResults) <= 1

\* the frame the worker held during flush was delivered after it
C8_Witness == flushMark.done /\ Cardinality(LateResults) = 1

\* processCaptureRequest's test for accepting a request with output buffers
Accepts ==
    /\ ~mIsClosing
    /\ ~(~mStreamsConfigured \/ mConfiguredHalStreams = <<>> \/ mHardwareBuffers = <<>>)

\* C9: flush changes neither the configured flag, the stream descriptors, the
\* ring, the ring index nor the closing flag, so a session that accepted
\* requests before flush accepts them after it.
C9_FlushKeepsConfiguration ==
    [][(hal = "aidl" /\ FlushReturns) =>
          /\ UNCHANGED <<mStreamsConfigured, mConfiguredHalStreams, mActiveStreamInfo,
                         mHardwareBuffers, mNextAvailableBufferIdx, mIsClosing>>
          /\ Accepts' = Accepts]_vars

\* after a flush and with no configureStreams since, a request was accepted
\* and a frame pushed after the flush was delivered
C9_Witness ==
    /\ hal = "aidl" /\ flushMark.done /\ flushMark.configured = nConfigure
    /\ \E i \in Calls(delivered, "SHUTTER") : i > flushMark.pos
    /\ \E j \in Calls(delivered, "RESULT") :
          j > flushMark.pos /\ delivered[j].seq > flushMark.pushed

\* C10: a close (closeDevice) call on a session (device) that was closed
\* before returns success and changes no field of the session, the device
\* or the request thread, releases no buffer and delivers nothing; the
\* parent device is told about the close at most once.
C10_CloseIdempotent ==
    /\ [][(nClose >= 1 /\ nClose' = nClose + 1) =>
             /\ closeStatus' = "OK"
             /\ UNCHANGED <<sessVars, mCurrentSession, workerVars, pcClose, released,
                            delivered, nCloseSession, mState, mCallbackOps,
                            mRequestThread, mExitRequested, mRequestQueue, pcThread,
                            request, pcCloseDevice>>]_vars
    /\ [](nCloseSession <= 1)

\* a session closed, configured again and closed a second time keeps its ring
C10_Witness == hal = "aidl" /\ nClose = 2 /\ closeStatus = "OK" /\ mHardwareBuffers # <<>>

\* C11: close called from inside processCaptureResult on the worker thread
\* completes: the worker is never left joining itself.
C11_CloseFromWorkerCompletes == pcWorker # "selfjoin"

\* C18: configureStreams with two streams leaves the configured flag, the
\* stream descriptors and the ring of a configured session as they were.
C18_TwoStreamsPreservePrior ==
    [][(mStreamsConfigured
        /\ \E failAt \in 0..kNumStreamBuffers : configureStreams(<<S640, S720>>, failAt)) =>
          UNCHANGED <<mStreamsConfigured, mConfiguredHalStreams, mHardwareBuffers>>]_vars

\* the generations of the buffers in the ring
RingGens == {mHardwareBuffers[i].gen : i \in DOMAIN mHardwareBuffers}

\* C19: a second successful configureStreams with the configuration the
\* session already has returns the descriptors the first call returned,
\* releases the first ring and leaves one ring of kNumStreamBuffers buffers,
\* none of them released.
C19_ConfigureIdempotent ==
    [][(mStreamsConfigured /\ mActiveStreamInfo = S640
        /\ configureStreams(<<S640>>, kNumStreamBuffers)) =>
          /\ mConfiguredHalStreams' = mConfiguredHalStreams
          /\ mStreamsConfigured'
          /\ RingGens \subseteq released'
          /\ Len(mHardwareBuffers') = kNumStreamBuffers
          /\ Cardinality(RingGens') = 1
          /\ RingGens' \cap released' = {}
          /\ RingGens' \cap RingGens = {}]_vars

\* the same configuration was applied twice: the second ring is live and
\* the first one was released
C19_Witness ==
    /\ hal = "aidl" /\ nConfigure = 2 /\ mStreamsConfigured /\ mActiveStreamInfo = S640
    /\ RingGens = {2} /\ released = {1}

\* a processCaptureRequest call for frame fn whose request has no output buffers
EmptyRequest(fn) == processCaptureRequest(fn, FALSE)

\* what C20 demands of such a call: accepted count 0, one ERROR_REQUEST for
\* the frame number added to the callback log and nothing else, no frame queued
EmptyRequestRejected(fn) ==
    /\ submittedRequests(FALSE) = 0
    /\ Len(delivered') = Len(delivered) + 1
    /\ LET m == delivered'[Len(delivered')]
       IN  m.type = "ERROR" /\ m.frameNumber = fn /\ m.errorCode = "ERROR_REQUEST"
    /\ SubSeq(delivered', 1, Len(delivered)) = delivered
    /\ UNCHANGED <<mFrameQueue, mRequestQueue>>

\* C20 as stated: every processCaptureRequest with no output buffers is
\* answered with accepted count 0 and one ERROR_REQUEST, no SHUTTER, and
\* queues nothing.
C20_EmptyOutputsRejected ==
    [][\A fn \in 0..MaxFrameNumber : EmptyRequest(fn) => EmptyRequestRejected(fn)]_vars

\* C20, amended: the same for a session that still has its framework
\* callback, that is, whose close has not returned.
C20_EmptyOutputsRejectedWhileOpen ==
    [][\A fn \in 0..MaxFrameNumber :
          (mFrameworkCallback /\ EmptyRequest(fn)) => EmptyRequestRejected(fn)]_vars

\* a configured, open session has answered a request without output buffers
\* with an ERROR_REQUEST naming its stream, and no SHUTTER for that frame
C20_Witness ==
    /\ hal = "aidl" /\ nConfigure = 1 /\ mStreamsConfigured /\ ~mIsClosing
    /\ \E i \in Calls(delivered, "ERROR") :
          /\ delivered[i].streamId = S640.id
          /\ delivered[i].errorCode = "ERROR_REQUEST"
          /\ CallsFor(delivered, "SHUTTER", delivered[i].frameNumber) = {}

\* the last entry of a log
Last(log) == log[Len(log)]

\* a session open returned exists and its close has not returned
SessionLive == hal = "prov" /\ SessionExists /\ pcClose # "returned"

\* C12: while a session open returned has not been closed, open fails with
\* -EBUSY (camera in use) and neither makes a session nor touches the live
\* one; once its close has returned, or before any session, open with a
\* callback succeeds and makes a session; the device holds a session exactly
\* while one is live.
C12_OneLiveSession ==
    /\ [][\A in_callback \in BOOLEAN :
             open(in_callback) =>
                IF SessionLive
                THEN /\ Last(openLog') = "EBUSY"
                     /\ UNCHANGED <<sessVars, mCurrentSession, workerVars, pcClose>>
                ELSE in_callback =>
                        /\ Last(openLog') = "OK"
                        /\ mCurrentSession' /\ ~mIsClosing' /\ pcWorker' = "wait"]_vars
    /\ [](hal = "prov" => (mCurrentSession <=> SessionLive))

\* open succeeded, a second open was refused while the session was live, and
\* after close a third open succeeded
C12_Witness == hal = "prov" /\ openLog = <<"OK", "EBUSY", "OK">> /\ SessionLive

\* an ERROR notify with ERROR_DEVICE among the callback calls after position n
ErrorDeviceSince(log, n) ==
    \E i \in Calls(log, "ERROR") : i > n /\ log[i].errorCode = "ERROR_DEVICE"

\* C13: signalDeviceAvailable(id, false) for the virtual camera, received
\* while it is available and has a live session, makes the session deliver
\* an ERROR_DEVICE notification.
C13_UnplugNotifiesSession ==
    [][(SessionLive /\ mIsDeviceAvailable /\ mFrameworkCallback
        /\ signalDeviceAvailable(mVirtualCameraId, FALSE)) =>
          ErrorDeviceSince(delivered', Len(delivered))]_vars

\* C14: while the camera is marked not available, open on its device fails
\* with an unavailable status and makes no session.
C14_OpenUnavailableFails ==
    [][\A in_callback \in BOOLEAN :
          (~mIsDeviceAvailable /\ open(in_callback)) =>
             /\ Last(openLog') \in {"DEVICE_UNAVAILABLE", "ENODEV"}
             /\ UNCHANGED <<sessVars, mCurrentSession, workerVars, pcClose>>]_vars

\* the cameraDeviceStatusChange call for a change of the flag to `available`
StatusChange(cameraId, available) ==
    [cameraId |-> cameraId, status |-> IF available THEN "PRESENT" ELSE "NOT_PRESENT"]

\* C15: with a provider callback set, a signalDeviceAvailable call for the
\* virtual camera that changes the flag makes one cameraDeviceStatusChange
\* call, PRESENT for true and NOT_PRESENT for false; a call that repeats the
\* flag's value or names another camera makes none and leaves the flag.
C15_SignalEdgeTriggered ==
    [][\A cameraId \in CameraIds, available \in BOOLEAN :
          (mProviderCallback /\ signalDeviceAvailable(cameraId, available)) =>
             IF cameraId = mVirtualCameraId /\ mIsDeviceAvailable # available
             THEN /\ statusLog' = Append(statusLog, StatusChange(cameraId, available))
                  /\ mIsDeviceAvailable' = available
             ELSE UNCHANGED <<statusLog, mIsDeviceAvailable>>]_vars

\* three signals made two status callbacks: the flag went up and down and
\* one call left it as it was
C15_Witness ==
    /\ hal = "prov" /\ mProviderCallback /\ nSignal = 3 /\ lastSignal = "false"
    /\ statusLog = <<StatusChange(mVirtualCameraId, TRUE),
                     StatusChange(mVirtualCameraId, FALSE)>>

\* C16: getCameraIdList returns the virtual camera's id if the last signal
\* for it was true, and the empty list otherwise, also before any signal.
C16_ListIsAvailableCameras ==
    getCameraIdList = IF lastSignal = "true" THEN <<mVirtualCameraId>> ELSE <<>>

\* the camera is listed after it was signalled absent and present again
C16_Witness ==
    /\ hal = "prov" /\ nSignal = 3 /\ lastSignal = "true"
    /\ getCameraIdList = <<mVirtualCameraId>>
    /\ Len(statusLog) = 3

ErrorRequestSince(log, n) ==
    \E i \in Calls(log, "ERROR") : i > n /\ log[i].errorCode = "ERROR_REQUEST"

\* the worker finishes a frame whose buffer it locked and unlocked and whose
\* conversion failed
ConversionFails ==
    /\ hal = "aidl" /\ outputHwBuffer # NoBuffer /\ mConfiguredHalStreams # <<>>
    /\ \E yuy2Ok \in BOOLEAN, decoded \in DecodedSizes(rawFrame.width, rawFrame.height) :
          /\ ~ConversionOk(rawFrame, mConfiguredHalStreams[1].overridePixelFormat,
                           outputHwBuffer, decoded, yuy2Ok)
          /\ frameProcessingLoop_process(TRUE, TRUE, decoded, yuy2Ok, TRUE)

\* C21: a frame whose conversion fails gets an ERROR_REQUEST notification on
\* the session's callback, and the worker goes on with the next frame.
C21_ConversionFailureNotified ==
    [][(mFrameworkCallback /\ ConversionFails) =>
          /\ ErrorRequestSince(delivered', Len(delivered))
          /\ pcWorker' = "wait"]_vars

\* C27: once close has returned on a session, no call makes it configured
\* again, gives it ring buffers or puts a frame into its queue.
C27_ClosedIsTerminal ==
    [][SessionClosed =>
          /\ ~mStreamsConfigured'
          /\ mHardwareBuffers' = <<>>
          /\ mConfiguredHalStreams' = <<>>
          /\ mFrameQueue' = <<>>]_vars

C23_CallbacksOutsideLocks == pcSignal # "selflock"

\* the worker holds a ring slot it is about to write a frame into
WorkerWrites == hal = "aidl" /\ pcWorker = "process" /\ outputHwBuffer # NoBuffer

\* C22: the worker does not write into a ring slot that an earlier
\* CaptureResult handed to the framework (no code path takes a slot back, so
\* every slot handed out since the only configureStreams is outstanding).
C22_NoWriteToOutstandingSlot ==
    (nConfigure = 1 /\ WorkerWrites) =>
        \A i \in Calls(delivered, "RESULT") : delivered[i].bufferId # currentBufferIdx

\* C26: a request submitted while the frame queue holds its bound of
\* kNumStreamBuffers * 2 entries is not accepted.
C26_Backpressure ==
    [][\A fn \in 0..MaxFrameNumber :
          (Len(mFrameQueue) >= kNumStreamBuffers * 2 /\ Accepts
           /\ processCaptureRequest(fn, TRUE)) =>
             /\ submittedRequests(TRUE) < 1
             /\ CallsFor(delivered', "SHUTTER", fn) = CallsFor(delivered, "SHUTTER", fn)]_vars

\* the worker takes a frame and a ring slot
TakesFrame == hal = "aidl" /\ pcWorker = "wait" /\ pcWorker' = "process"

\* the number of CaptureResults in the log from position i up to position j
ResultsBetween(log, i, j) == Cardinality({k \in Calls(log, "RESULT") : i <= k /\ k <= j})

\* C29: while the session is configured the ring index is a position of the
\* ring; a frame the worker takes gets the slot at the index, and the index
\* moves on by one modulo the ring size; a successful configureStreams sets
\* it to 0; of the frames delivered under one configuration, any
\* kNumStreamBuffers consecutive ones came in different slots.
C29_RingIndex ==
    /\ [](mStreamsConfigured =>
             mNextAvailableBufferIdx \in 0..(Len(mHardwareBuffers) - 1))
    /\ [][TakesFrame =>
             /\ currentBufferIdx' = mNextAvailableBufferIdx
             /\ outputHwBuffer' = mHardwareBuffers[mNextAvailableBufferIdx + 1]
             /\ mNextAvailableBufferIdx' =
                    (mNextAvailableBufferIdx + 1) % Len(mHardwareBuffers)]_vars
    /\ [][(nConfigure' = nConfigure + 1 /\ mStreamsConfigured') =>
             mNextAvailableBufferIdx' = 0]_vars
    /\ [](nConfigure <= 1 =>
             \A i, j \in Calls(delivered, "RESULT") :
                (i < j /\ ResultsBetween(delivered, i, j) <= kNumStreamBuffers)
                   => delivered[i].bufferId # delivered[j].bufferId)

\* under one configuration the worker went round the ring: the fifth frame
\* came in the slot of the first
C29_Witness ==
    /\ hal = "aidl" /\ nConfigure = 1
    /\ Cardinality(Calls(delivered, "RESULT")) = kNumStreamBuffers + 1
    /\ Last(delivered).type = "RESULT" /\ Last(delivered).bufferId = 0

TableKeys(data) ==
    { <<data[4 * k + 1], data[4 * k + 2], data[4 * k + 3]>> :
        k \in 0..(Len(data) \div 4 - 1) }

\* one OUTPUT stream whose (format, width, height) is in the table the device
\* builds: YCBCR_420_888 at 640x480, 1280x720 and 1920x1080
ListedCombination(config) ==
    /\ Len(config) = 1
    /\ config[1].streamType = "OUTPUT"
    /\ <<PixelFormatValue(config[1].format), config[1].width, config[1].height>>
          \in TableKeys(streamConfigs)

\* C24: isStreamCombinationSupported returns true exactly for a configuration
\* of one OUTPUT stream whose (format, width, height) is an entry of the
\* advertised stream-configuration table, false for every other
\* configuration, and it changes no device state.
C24_CombinationSupported ==
    /\ [](\A i \in 1..Len(supportedLog) :
             supportedLog[i].aidl_return <=> ListedCombination(supportedLog[i].in_config))
    /\ [][(\E config \in QueryConfigs : isStreamCombinationSupported(config))
             => UNCHANGED <<mStaticCharacteristics, mCurrentSession, sessVars>>]_vars

\* ---- C25
\* C25: for every list of enumerated V4L2 formats, the static metadata holds
\* a min-frame-duration entry and a stall-duration entry for a (format, w, h)
\* if and only if it holds a stream-configuration entry for that
\* (format, w, h), and no (format, w, h) is twice in the stream-configuration
\* table.
C25_DurationsMatchConfigs ==
    mStaticInfo.allocated =>
        LET t == mStaticInfo.tables
        IN /\ TableKeys(t.minFrameDurationsData) = TableKeys(t.streamConfigsData)
           /\ TableKeys(t.stallDurationsData) = TableKeys(t.streamConfigsData)
           /\ Cardinality(TableKeys(t.streamConfigsData)) = Len(t.streamConfigsData) \div 4

\* ---- C31
\* positions of the quadruples of a table that carry the key (format, w, h)
EntriesFor(data, key) ==
    { k \in 0..(Len(data) \div 4 - 1) :
        <<data[4 * k + 1], data[4 * k + 2], data[4 * k + 3]>> = key }

\* the HAL formats initStaticMetadata lists for a V4L2 pixel format
HalFormatsOf(pf) ==
    (IF pf \in DOMAIN v4l2ToHalFormatMap THEN {v4l2ToHalFormatMap[pf]} ELSE {})
    \cup (IF pf = "MJPG" THEN {HAL_PIXEL_FORMAT_BLOB} ELSE {})
    \cup (IF pf \in {"YUYV", "MJPG"} THEN {HAL_PIXEL_FORMAT_YCbCr_420_888} ELSE {})

\* the frame rates enumerated for the configuration key
RatesFor(key) ==
    UNION { { mSupportedV4L2Formats[i].frame_rates[j] :
                j \in 1..Len(mSupportedV4L2Formats[i].frame_rates) } :
            i \in { n \in 1..Len(mSupportedV4L2Formats) :
                      /\ key[1] \in HalFormatsOf(mSupportedV4L2Formats[n].pixel_format)
                      /\ key[2] = mSupportedV4L2Formats[n].width
                      /\ key[3] = mSupportedV4L2Formats[n].height } }

\* C31: every advertised (format, w, h) has exactly one min-frame-duration
\* entry, of floor(10^9 / maxFps) nanoseconds for the largest frame rate
\* enumerated for it, and exactly one stall-duration entry, of value 0.
\* Stated for the configurations that have a positive enumerated rate.
C31_OneDurationPerConfig ==
    mStaticInfo.allocated =>
        LET t == mStaticInfo.tables
        IN \A key \in { c \in TableKeys(t.streamConfigsData) :
                           \E r \in RatesFor(c) : r > 0 } :
              /\ Cardinality(EntriesFor(t.minFrameDurationsData, key)) = 1
              /\ Cardinality(EntriesFor(t.stallDurationsData, key)) = 1
              /\ \E maxFps \in RatesFor(key) :
                    /\ maxFps > 0
                    /\ \A r \in RatesFor(key) : r <= maxFps
                    /\ \A k \in EntriesFor(t.minFrameDurationsData, key) :
                          t.minFrameDurationsData[4 * k + 4] = NANOS_PER_SECOND \div maxFps
              /\ \A k \in EntriesFor(t.stallDurationsData, key) :
                    t.stallDurationsData[4 * k + 4] = 0

\* ---- C32
\* C32: every ring buffer a session allocated is released exactly once over
\* the session's life: no buffer is given to AHardwareBuffer_release twice,
\* only allocated buffers are released, and once the session is destroyed
\* every allocated buffer was released.
C32_BuffersReleasedOnce ==
    /\ \A b \in BagToSet(releaseCalls) : b \in allocated /\ CopiesIn(b, releaseCalls) = 1
    /\ HeldBuffers(mHardwareBuffers) \cap BagToSet(releaseCalls) = {}
    /\ destroyed => BagToSet(releaseCalls) = allocated

\* a destroyed session that had a ring configured after its close, a ring
\* replaced by a later configureStreams, and an allocation failing part-way
C32_Witness ==
    /\ destroyed
    /\ \E g \in 1..MaxConfigure : Cardinality({ b \in allocated : b[1] = g }) = kNumStreamBuffers
    /\ \E g \in 1..MaxConfigure :
          Cardinality({ b \in allocated : b[1] = g }) \in 1..(kNumStreamBuffers - 1)

\* ---- C33
\* C33: a close made on a caller thread always returns: once it has set the
\* closing flag and waits in join, the worker leaves its loop and close
\* returns; the same for closeDevice waiting for the request thread.
C33_CloseReturns ==
    /\ (pcClose = "join") ~> (pcClose = "returned")
    /\ (pcCloseDevice = "join") ~> (pcCloseDevice = "returned")

\* close is waiting in join while the worker converts a frame and further
\* frames are queued
C33_Witness ==
    /\ pcClose = "join"
    /\ pcWorker = "process"
    /\ mFrameQueue # <<>>

\* ---- C34
\* the worker's step outside the mutex on a slot it took: it describes and
\* locks outputHwBuffer and reads mConfiguredHalStreams[0]
WorkerUsesSlot ==
    /\ outputHwBuffer # NoBuffer
    /\ \/ \E lockOk \in BOOLEAN, unlockOk \in BOOLEAN, handleOk \in BOOLEAN,
            yuy2Ok \in BOOLEAN, decoded \in DecodedSizes(rawFrame.width, rawFrame.height) :
            frameProcessingLoop_process(lockOk, unlockOk, decoded, yuy2Ok, handleOk)
       \/ \E yuy2Ok \in BOOLEAN, decoded \in DecodedSizes(rawFrame.width, rawFrame.height) :
            close_in_callback(decoded, yuy2Ok)

\* C34: the worker never uses a ring buffer after it was released, and never
\* reads the configured stream descriptors while the list is empty.
C34_NoUseAfterRelease ==
    [][WorkerUsesSlot =>
          /\ <<outputHwBuffer.gen, currentBufferIdx + 1>> \notin BagToSet(releaseCalls)
          /\ mConfiguredHalStreams # <<>>]_vars

\* ---- C35
\* how often the sequence holds the value
CountIn(seq, x) == Cardinality({ i \in DOMAIN seq : seq[i] = x })

\* C35: every request given to enqueueRequest is accounted for exactly once:
\* it waits in the queue or in the thread's hands, or it was handed to
\* processOneCaptureRequest once, or it was answered with one ERROR_REQUEST
\* notification; never two of these and never none.
C35_RequestsAccountedOnce ==
    hal = "hal3" =>
        \A i \in DOMAIN submitted :
            CountIn(mRequestQueue, submitted[i])
            + (IF request = submitted[i] THEN 1 ELSE 0)
            + CountIn(handed, submitted[i])
            + Cardinality(CallsFor(delivered, "ERROR", submitted[i])) = 1

\* ---- C36
\* C36: provider cleanup always returns: while it holds the provider lock it
\* never waits on that lock, also when dropping the cached device destroys
\* the device and the destructor notifies the provider.
C36_CleanupReturns == pcCleanup # "selflock"

\* ---- C37
\* C37: in every state of a live session the configured flag agrees with the
\* held resources: configured means kNumStreamBuffers non-null ring buffers
\* and one stream descriptor; not configured means no ring buffer and no
\* descriptor.
C37_ConfiguredMatchesResources ==
    ~destroyed =>
        IF mStreamsConfigured
        THEN /\ Len(mHardwareBuffers) = kNumStreamBuffers
             /\ \A i \in 1..Len(mHardwareBuffers) : mHardwareBuffers[i] # NoBuffer
             /\ Len(mConfiguredHalStreams) = 1
        ELSE /\ mHardwareBuffers = <<>>
             /\ mConfiguredHalStreams = <<>>

\* an open session whose second configureStreams failed after it had
\* allocated some buffers, the first one having succeeded
C37_Witness ==
    /\ ~destroyed /\ ~mIsClosing
    /\ ~mStreamsConfigured
    /\ nConfigure = 2
    /\ Cardinality({ b \in allocated : b[1] = 1 }) = kNumStreamBuffers
    /\ Cardinality({ b \in allocated : b[1] = 2 }) \in 1..(kNumStreamBuffers - 1)

\* ---- C38
\* C38: initialize returns OK only for non-null callbacks on an OPENED
\* device, which it leaves READY with a request thread started; null
\* callbacks get -EINVAL, and non-null callbacks on a device that is not
\* OPENED get -ENODEV in ERROR and -EPIPE otherwise, the state kept and no
\* thread started in both cases; so at most one initialize of a device
\* succeeds, and none after closeDevice.
C38_InitializeOnlyFromOpened ==
    /\ \A i \in DOMAIN initLog :
          LET c == initLog[i] IN
          /\ c.ret = "OK" =>
                /\ c.callbackOps /\ c.before = "OPENED"
                /\ c.after = "READY" /\ c.started
          /\ ~c.callbackOps =>
                c.ret = "-EINVAL" /\ c.after = c.before /\ ~c.started
          /\ (c.callbackOps /\ c.before # "OPENED") =>
                /\ c.ret = (IF c.before = "ERROR" THEN "-ENODEV" ELSE "-EPIPE")
                /\ c.after = c.before /\ ~c.started
    /\ Cardinality({ i \in DOMAIN initLog : initLog[i].ret = "OK" }) <= 1

\* a device that was initialized, closed, and then refused a second
\* initialize with -EPIPE
C38_Witness ==
    /\ Len(initLog) = 2
    /\ initLog[1].ret = "OK"
    /\ initLog[2].callbackOps /\ initLog[2].before = "CLOSED" /\ initLog[2].ret = "-EPIPE"
    /\ pcCloseDevice = "returned"

\* ---- C39
\* C39: allocateFrameBuffers always returns: the thread inside it never
\* waits for the buffer mutex that it holds itself.
C39_AllocateReturns == pcAllocate # "selflock"

====
